---- MODULE Spec2Model ----
(***************************************************************************)
(* A model of noorimat/distributed-file-storage: the content-defined       *)
(* chunker (internal/chunking/rabin.go), the deduplicating chunk store     *)
(* (internal/dedup/store.go), the consistent-hash ring                     *)
(* (internal/node/consistent_hash.go), the node registry                  *)
(* (internal/node/registry.go), the storage node (package node), the       *)
(* metadata database (package metadata, scripts/init.sql) and the upload   *)
(* and download handlers of the API server (cmd/api-server/main.go).       *)
(*                                                                         *)
(* Sizes are scaled: the chunker's 2 MiB / 8 MiB limits, the 20-bit        *)
(* boundary mask, the 64-bit rolling hash and the 8-bit byte are modelled  *)
(* by small numbers that keep their order (MIN < MAX, mask narrower than   *)
(* the hash register).  Go slices are 0-based; sequences here are 1-based, *)
(* so the Go expression data[i] is data[i + 1] below.                      *)
(***************************************************************************)
EXTENDS Integers, Sequences, FiniteSets, TLC

\* ------------------------------------------------------------------------
\* Program constants (scaled)
\* ------------------------------------------------------------------------
\* rabin.go: MinChunkSize = 2 MiB
MinChunkSize == 2
\* rabin.go: MaxChunkSize = 8 MiB
MaxChunkSize == 5
\* rabin.go: targetMask = (1 << 20) - 1, the number of mask bits
MaskBits == 2
\* rabin.go: hash is a uint64, the width of the rolling-hash register
HashBits == 3
\* the largest value of a Go byte (255)
ByteMax == 2
\* consistent_hash.go: VirtualNodesPerNode = 150
VirtualNodesPerNode == 2
\* consistent_hash.go: ring positions are uint32
RingBits == 4
\* the heartbeat timeout given to NewRegistry (30 s), in ticks
HeartbeatTimeout == 2
\* the replicas asked of the ring for a chunk
ReplicationFactor == 3
\* the length of the name of a chunk file, a SHA-256 digest in hexadecimal
Sha256HexLen == 64
\* encrypt.go: NonceSize = 12
NonceSize == 1
\* encrypt.go: the GCM tag, 16 bytes
TagSize == 1

\* ------------------------------------------------------------------------
\* Bounds of the model
\* ------------------------------------------------------------------------
\* the longest input stream handed to the chunker
MaxStreamLen == 8

\* the clients calling into the chunk store (or the API server) concurrently
NumProcs == 2
\* the uploads one run accepts
MaxUploads == 2
\* the downloads one run accepts
MaxDownloads == 1
\* the I/O calls that fail in one run of the API server or of the cluster
MaxFaults == 1
\* the calls made on the ring in one run
MaxRingCalls == 4
\* the ticks of the clock in one run of the registry
MaxTime == 3
\* the uploads one run of the cluster accepts, and the requests its
\* coordinator serves at a time
MaxClusterUploads == 1
NumHandlers == 1
\* the storage nodes
NumNodes == 3
\* the calls made on the chunk store in one run
MaxCalls == 3
\* the requests one run of the storage node accepts
MaxNodeCalls == 4
\* the times the storage node is killed in one run
MaxKills == 1
\* the times the coordinator becomes unreachable in one run
MaxOutages == 1
\* the calls made on the metadata database in one run
MaxDbCalls == 6
\* the largest chunk_order a client links a chunk at
MaxOrder == 2

Bytes == 0..ByteMax
Procs == 1..NumProcs

RECURSIVE Pow2(_)
Pow2(n) == IF n = 0 THEN 1 ELSE 2 * Pow2(n - 1)

MinOf(a, b) == IF a < b THEN a ELSE b

\* every byte sequence of length at most n
SeqsUpTo(n) == UNION {[1..k -> Bytes] : k \in 0..n}

\* crypto/sha256 + hex.EncodeToString: an injective rendering of the bytes as
\* a string of digits (collision freedom is assumed of SHA-256)
Sha256Hex(data) == <<Len(data)>> \o data

VARIABLES
    \* --- chunker (one ChunkReader driven by ChunkFile) ---
    stream,     \* the bytes the underlying io.Reader will deliver
    readSize,   \* the most bytes one Read of the underlying reader returns
    srcPos,     \* bytes of stream already consumed from the underlying reader
    readers,    \* cr.reader: the bufferReaders stacked in front of the underlying reader
    buffer,     \* cr.buffer, MaxChunkSize bytes
    offset,     \* cr.offset
    chunks,     \* ChunkFile's result so far
    cdone,      \* ChunkFile has returned
    shifted,    \* the chunks ChunkFile made of the stream and of the stream
                \* behind one more byte (NoShift: not chunked yet)
    \* --- dedup.ChunkStore ---
    index,      \* cs.index: hash -> ChunkMetadata
    disk,       \* the chunk files under cs.basePath: path -> bytes
    snapshot,   \* the file cs.indexPath (chunk_index.json)
    indexLock,  \* cs.indexLock: 0 when free, else the process holding it for writing
    pc,         \* where each client is in its call
    call,       \* the call each client is making
    ret,        \* what each client's last call returned
    pre,        \* history: index and disk as they were when the client got the lock
    hist,       \* history: per hash, the calls that have returned
    ncalls,     \* calls started
    \* --- cmd/api-server: uploadHandler, downloadHandler ---
    task,       \* the request each handler goroutine is serving
    files,      \* storage/metadata/<fileID>.json: fileID -> FileMetadata
    resp,       \* the HTTP response the last step sent (NoResp: none)
    uploads,    \* history: fileID -> the upload that was answered 200, with
                \* the earlier uploads of the same bytes it repeated and the
                \* nodes registered and running when it began
    nuploads,   \* uploads accepted so far (the next fileID)
    ndownloads, \* downloads accepted so far
    nfaults,    \* I/O calls that failed so far
    \* --- the cluster: ring, registry, storage nodes ---
    ring,       \* the coordinator's ConsistentHash: circle, sortedHashes, nodes
    registry,   \* the coordinator's Registry: nodeID -> NodeInfo
    now,        \* the time, in ticks since the coordinator started
    sn,         \* the storage nodes: running or not, sn.chunks, the disk
    \* --- callers of the ring (ConsistentHash.mu and its goroutines) ---
    mu,         \* ConsistentHash.mu: the writer holding it, the readers
    rpc,        \* position of each caller of the ring
    rcall,      \* the ring call each caller is in
    rret,       \* what the lookup of each caller returned
    rmut,       \* history: the ring before the mutation in progress, and
                \* the ring AddNode/RemoveNode as a whole makes of it
    nrcalls,    \* ring calls started
    \* --- callers of the registry ---
    regret,     \* the registry call of the last step: what it returned and
                \* the registry it found (NoRegistryCall: none)
    \* --- the metadata database (scripts/init.sql, metadata.Database) ---
    db,         \* the tables files, chunks, file_chunks and the sequence
                \* file_chunks_id_seq
    dbcall,     \* the CreateChunk each client is in, between its statements
    dbret,      \* the database call that returned in the last step, with the
                \* tables it found (NoDbRet: none)
    ndbcalls,   \* database calls started
    \* --- one storage node process and its storage root ---
    stnode,     \* the process: running or not, sn.chunks, the chunk files
    hreq,       \* the request each handler goroutine of the node is serving
    hresp,      \* the response the node sent in the last step (NoNodeResp: none)
    acked,      \* history: the hashes the node acknowledged storing
    nodeCount,  \* requests accepted, I/O calls failed, kills and starts so far
    \* --- storage nodes joining the coordinator ---
    reachable,  \* the coordinator answers the requests of the nodes
    member,     \* per node: the process runs, where its registerWithCoordinator
                \* goroutine is, what its last heartbeat was answered
    joinCount   \* outages of the coordinator and kills of nodes so far

chunkVars == <<stream, readSize, srcPos, readers, buffer, offset, chunks, cdone,
              shifted>>
storeVars == <<index, disk, snapshot, indexLock, pc, call, ret, pre, hist, ncalls>>

apiVars == <<task, files, resp, uploads, nuploads, ndownloads, nfaults>>

ringVars == <<mu, rpc, rcall, rret, rmut, nrcalls>>

clusterVars == <<ring, registry, now, sn, ringVars, regret>>

dbVars == <<db, dbcall, dbret, ndbcalls>>

\* the components beside the API server, its store and its cluster
nodeVars == <<stnode, hreq, hresp, acked, nodeCount>>

joinVars == <<reachable, member, joinCount>>

extVars == <<dbVars, nodeVars, joinVars>>

vars == <<chunkVars, storeVars, apiVars, clusterVars, extVars>>

\* ------------------------------------------------------------------------
\* internal/chunking/rabin.go
\* ------------------------------------------------------------------------

\* the for loop of findBoundary, from position i with rolling hash `hash`
RECURSIVE findBoundaryLoop(_, _, _)
findBoundaryLoop(data, i, hash) ==
    IF i < Len(data) /\ i < MaxChunkSize
    THEN LET h == ((hash * 2) + data[i + 1]) % Pow2(HashBits)
         IN  IF h % Pow2(MaskBits) = 0
             THEN i
             ELSE findBoundaryLoop(data, i + 1, h)
    ELSE IF Len(data) > MaxChunkSize THEN MaxChunkSize ELSE Len(data)

\* a findBoundary that starts scanning at position 0 instead of MinChunkSize
findBoundaryFromZero(data) ==
    IF Len(data) < MinChunkSize
    THEN Len(data)
    ELSE findBoundaryLoop(data, 0, 0)

\* a findBoundary that never looks at the content: fixed-size chunks
findBoundaryFixed(data) ==
    IF Len(data) > MaxChunkSize THEN MaxChunkSize ELSE Len(data)

findBoundary(data) ==
    IF Len(data) < MinChunkSize
    THEN Len(data)
    ELSE findBoundaryLoop(data, MinChunkSize, 0)

\* bufferReader.Read(p) with p = buf[n:]: br.data is the window
\* buffer[br.lo:br.hi] of the very buffer that is being filled, and copy()
\* has memmove semantics.  Returns the new buffer, the bytes copied, and the
\* reader advanced.
BufferRead(br, buf, n) ==
    LET avail == (br.hi - br.lo) - br.pos
        k     == MinOf(MaxChunkSize - n, avail)
    IN  [buf |-> [j \in 1..MaxChunkSize |->
                    IF j > n /\ j <= n + k
                    THEN buf[br.lo + br.pos + (j - n)]
                    ELSE buf[j]],
         k   |-> k,
         br  |-> [br EXCEPT !.pos = @ + k]]

\* io.ReadFull(cr.reader, cr.buffer): Read until the buffer is full or the
\* readers are at EOF.  io.MultiReader drops a reader once it returns EOF and
\* moves to the next; the underlying reader is the last.  st = [buf, n, rds, pos]
RECURSIVE ReadFull(_, _, _)
ReadFull(st, S, rsz) ==
    IF st.n >= MaxChunkSize
    THEN st
    ELSE IF st.rds # << >>
    THEN LET br == Head(st.rds)
         IN  IF br.pos >= br.hi - br.lo
             THEN ReadFull([st EXCEPT !.rds = Tail(@)], S, rsz)
             ELSE LET r == BufferRead(br, st.buf, st.n)
                  IN  ReadFull([st EXCEPT !.buf = r.buf,
                                          !.n   = @ + r.k,
                                          !.rds = <<r.br>> \o Tail(@)], S, rsz)
    ELSE IF st.pos >= Len(S)
    THEN st
    ELSE LET k == MinOf(MinOf(MaxChunkSize - st.n, Len(S) - st.pos), rsz)
         IN  ReadFull([st EXCEPT
                 !.buf = [j \in 1..MaxChunkSize |->
                            IF j > st.n /\ j <= st.n + k
                            THEN S[st.pos + (j - st.n)]
                            ELSE st.buf[j]],
                 !.n   = @ + k,
                 !.pos = @ + k], S, rsz)

\* the chunk size NextChunk settles on for a read of n bytes
ChunkSizeOf(buf, n) ==
    LET b  == findBoundary(SubSeq(buf, 1, n))
        b1 == IF b < MinChunkSize /\ n = MaxChunkSize THEN MinChunkSize ELSE b
    IN  IF b1 > n THEN n ELSE b1

\* a NextChunk that forgets the bytes read past the boundary
PushLeftoverDropped(rds, chunkSize, n) == rds

\* the readers after NextChunk: the leftover buffer[chunkSize:n] is pushed in
\* front of the current reader
PushLeftover(rds, chunkSize, n) ==
    IF chunkSize < n
    THEN <<[lo |-> chunkSize, hi |-> n, pos |-> 0]>> \o rds
    ELSE rds

NoChunk == [Data |-> << >>, Hash |-> << >>, Size |-> 0, Offset |-> 0]

\* ChunkReader.NextChunk on the reader state cr = [buffer, readers, srcPos,
\* offset] over a stream S read rsz bytes at a time: the chunk (or io.EOF)
\* and the reader state afterwards
NextChunkStep(cr, S, rsz) ==
    LET r == ReadFull([buf |-> cr.buffer, n |-> 0, rds |-> cr.readers, pos |-> cr.srcPos],
                      S, rsz)
    IN  IF r.n = 0
        THEN [eof   |-> TRUE,
              chunk |-> NoChunk,
              cr    |-> [buffer |-> r.buf, readers |-> r.rds, srcPos |-> r.pos,
                         offset |-> cr.offset]]
        ELSE LET chunkSize == ChunkSizeOf(r.buf, r.n)
                 chunkData == SubSeq(r.buf, 1, chunkSize)
             IN  [eof   |-> FALSE,
                  chunk |-> [Data   |-> chunkData,
                             Hash   |-> Sha256Hex(chunkData),
                             Size   |-> chunkSize,
                             Offset |-> cr.offset],
                  cr    |-> [buffer  |-> r.buf,
                             readers |-> PushLeftover(r.rds, chunkSize, r.n),
                             srcPos  |-> r.pos,
                             offset  |-> cr.offset + chunkSize]]

\* one turn of ChunkFile's loop: cr.NextChunk(), then break on io.EOF or append
NextChunk ==
    /\ ~cdone
    /\ LET r == NextChunkStep([buffer |-> buffer, readers |-> readers,
                               srcPos |-> srcPos, offset |-> offset],
                              stream, readSize)
       IN  /\ buffer' = r.cr.buffer
           /\ readers' = r.cr.readers
           /\ srcPos' = r.cr.srcPos
           /\ offset' = r.cr.offset
           /\ cdone' = r.eof
           /\ chunks' = IF r.eof THEN chunks ELSE Append(chunks, r.chunk)
    /\ UNCHANGED <<stream, readSize, shifted>>
    /\ UNCHANGED <<storeVars, apiVars, clusterVars, extVars>>

\* NewChunkReader(r)
NewChunkReader ==
    [buffer  |-> [j \in 1..MaxChunkSize |-> 0],
     readers |-> << >>,
     srcPos  |-> 0,
     offset  |-> 0]

\* ChunkFile(r) for a reader that delivers S in full reads
RECURSIVE ChunkFileLoop(_, _, _)
ChunkFileLoop(cr, S, acc) ==
    LET r == NextChunkStep(cr, S, MaxChunkSize)
    IN  IF r.eof THEN acc ELSE ChunkFileLoop(r.cr, S, Append(acc, r.chunk))

ChunkFile(S) == ChunkFileLoop(NewChunkReader, S, << >>)

NoShift == [done |-> FALSE, x |-> 0, plain |-> << >>, moved |-> << >>]

\* ChunkFile is run on the stream and on the stream with the byte x in front
ChunkBoth(x) ==
    /\ ~shifted.done
    /\ shifted' = [done  |-> TRUE,
                   x     |-> x,
                   plain |-> ChunkFile(stream),
                   moved |-> ChunkFile(<<x>> \o stream)]
    /\ UNCHANGED <<stream, readSize, srcPos, readers, buffer, offset, chunks, cdone>>
    /\ UNCHANGED <<storeVars, apiVars, clusterVars, extVars>>

\* ------------------------------------------------------------------------
\* internal/dedup/store.go
\* ------------------------------------------------------------------------

\* the chunk contents the clients of the store hand to StoreChunk
StoreData == {<<0, 0>>, <<1, 0, 2>>}
StoreHashes == {Sha256Hex(d) : d \in StoreData}

\* filepath.Join(cs.basePath, hash[:2], hash)
ChunkPath(hash) == <<SubSeq(hash, 1, 2), hash>>

\* what a file holds after a write of data that failed part-way
PartialWrites(data) == {SubSeq(data, 1, k) : k \in 0..(Len(data) - 1)}

\* the index file: a JSON document of an index, or a truncated one
SnapshotOf(idx) == [valid |-> TRUE, index |-> idx]
TruncatedSnapshot == [valid |-> FALSE, index |-> << >>]

\* what a call returns; saved tells what became of its saveIndex, whose error
\* no caller looks at: "none" (not called), "ok" or "failed"
NoRet == [path |-> << >>, isNew |-> FALSE, err |-> "none", data |-> << >>,
          saved |-> "none"]
NoCall == [op |-> "none", hash |-> << >>, data |-> << >>]
NoPre == [index |-> << >>, disk |-> << >>]

\* a map with key k set to v, and with key k deleted
MapPut(f, k, v) == [x \in DOMAIN f \cup {k} |-> IF x = k THEN v ELSE f[x]]
MapDel(f, k) == [x \in DOMAIN f \ {k} |-> f[x]]

\* saveIndex: os.WriteFile(cs.indexPath, json(cs.index)); its error is
\* ignored by every caller.  The file ends up holding the index, or (write
\* failed) what it held before or a truncated document.
SaveIndex(idx, snap) == {SnapshotOf(idx), snap, TruncatedSnapshot}

\* whether the index file holds the index after saveIndex
Saved(idx, snap) == IF snap = SnapshotOf(idx) THEN "ok" ELSE "failed"

\* loadIndex: json.Unmarshal of the index file into cs.index
LoadIndex(snap) ==
    IF snap.valid THEN [err |-> FALSE, index |-> snap.index]
    ELSE [err |-> TRUE, index |-> << >>]

\* a StoreChunk that treats a known hash as a first reference
StoreHitAsFirst(idx, hash) == [idx EXCEPT ![hash].RefCount = 1]

\* StoreChunk, the hash is in the index: metadata.RefCount++
StoreHit(idx, hash) == [idx EXCEPT ![hash].RefCount = @ + 1]

\* StoreChunk, new chunk: cs.index[hash] = &ChunkMetadata{...}
StoreNew(idx, hash, data) ==
    MapPut(idx, hash, [Hash      |-> hash,
                       Size      |-> Len(data),
                       RefCount  |-> 1,
                       StorePath |-> ChunkPath(hash)])

\* ReleaseChunk: metadata.RefCount--
ReleaseDecr(idx, hash) == [idx EXCEPT ![hash].RefCount = @ - 1]

\* a client starts a call: StoreChunk(hash(d), d), ReleaseChunk(h) or GetChunk(h)
CallStore(p, d) ==
    /\ pc[p] = "idle"
    /\ ncalls < MaxCalls
    /\ ncalls' = ncalls + 1
    /\ call' = [call EXCEPT ![p] = [op |-> "store", hash |-> Sha256Hex(d), data |-> d]]
    /\ pc' = [pc EXCEPT ![p] = "lock"]
    /\ ret' = [ret EXCEPT ![p] = NoRet]
    /\ hist' = [hist EXCEPT ![Sha256Hex(d)].conc =
                  @ \/ \E q \in Procs \ {p} :
                          /\ pc[q] # "idle"
                          /\ call[q].op = "store"
                          /\ call[q].hash = Sha256Hex(d)]
    /\ UNCHANGED <<index, disk, snapshot, indexLock, pre>>
    /\ UNCHANGED <<chunkVars, extVars, apiVars, clusterVars>>

CallRelease(p, h) ==
    /\ pc[p] = "idle"
    /\ ncalls < MaxCalls
    /\ ncalls' = ncalls + 1
    /\ call' = [call EXCEPT ![p] = [op |-> "release", hash |-> h, data |-> << >>]]
    /\ pc' = [pc EXCEPT ![p] = "lock"]
    /\ ret' = [ret EXCEPT ![p] = NoRet]
    /\ hist' = [hist EXCEPT ![h].relCalls = @ + 1]
    /\ UNCHANGED <<index, disk, snapshot, indexLock, pre>>
    /\ UNCHANGED <<chunkVars, extVars, apiVars, clusterVars>>

\* a Lock() that does not exclude
LockFreeAlways(p) == TRUE

\* cs.indexLock.Lock() can be taken
LockFree(p) == indexLock = 0

\* cs.indexLock.Lock() at the top of StoreChunk and ReleaseChunk
Lock(p) ==
    /\ pc[p] = "lock"
    /\ LockFree(p)
    /\ indexLock' = p
    /\ pc' = [pc EXCEPT ![p] = IF call[p].op = "store" THEN "sc_lookup" ELSE "rc_lookup"]
    /\ pre' = [pre EXCEPT ![p] = [index |-> index, disk |-> disk]]
    /\ UNCHANGED <<index, disk, snapshot, call, ret, hist, ncalls>>
    /\ UNCHANGED <<chunkVars, extVars, apiVars, clusterVars>>

\* StoreChunk lines 59-64: the lookup, and the increment when the hash is known
StoreLookup(p) ==
    /\ pc[p] = "sc_lookup"
    /\ LET h == call[p].hash
       IN  IF h \in DOMAIN index
           THEN /\ index' = StoreHit(index, h)
                /\ snapshot' \in SaveIndex(index', snapshot)
                /\ ret' = [ret EXCEPT ![p] = [NoRet EXCEPT !.path = index[h].StorePath,
                                                            !.saved = Saved(index', snapshot')]]
                /\ pc' = [pc EXCEPT ![p] = "unlock"]
           ELSE /\ pc' = [pc EXCEPT ![p] = "sc_mkdir"]
                /\ UNCHANGED <<index, snapshot, ret>>
    /\ UNCHANGED <<disk, indexLock, call, pre, hist, ncalls>>
    /\ UNCHANGED <<chunkVars, extVars, apiVars, clusterVars>>

\* StoreChunk lines 68-71: os.MkdirAll(shardDir)
StoreMkdir(p) ==
    /\ pc[p] = "sc_mkdir"
    /\ \/ /\ pc' = [pc EXCEPT ![p] = "sc_write"]
          /\ UNCHANGED ret
       \/ /\ ret' = [ret EXCEPT ![p] = [NoRet EXCEPT !.err = "mkdir"]]
          /\ pc' = [pc EXCEPT ![p] = "unlock"]
    /\ UNCHANGED <<index, disk, snapshot, indexLock, call, pre, hist, ncalls>>
    /\ UNCHANGED <<chunkVars, extVars, apiVars, clusterVars>>

\* a StoreChunk that enters the chunk in the index before it writes the file
\* and leaves the entry there when the write fails
StoreWriteIndexFirst(p) ==
    /\ pc[p] = "sc_write"
    /\ LET path == ChunkPath(call[p].hash)
       IN  \/ /\ disk' = MapPut(disk, path, call[p].data)
              /\ pc' = [pc EXCEPT ![p] = "sc_insert"]
              /\ UNCHANGED <<ret, index>>
           \/ /\ disk' \in {disk} \cup {MapPut(disk, path, part) :
                                          part \in PartialWrites(call[p].data)}
              /\ index' = StoreNew(index, call[p].hash, call[p].data)
              /\ ret' = [ret EXCEPT ![p] = [NoRet EXCEPT !.err = "write"]]
              /\ pc' = [pc EXCEPT ![p] = "unlock"]
    /\ UNCHANGED <<snapshot, indexLock, call, pre, hist, ncalls>>
    /\ UNCHANGED <<chunkVars, extVars, apiVars, clusterVars>>

\* StoreChunk lines 73-78: os.WriteFile(chunkPath, data); a failed write
\* leaves the directory as it was or a partly written file
StoreWrite(p) ==
    /\ pc[p] = "sc_write"
    /\ LET path == ChunkPath(call[p].hash)
       IN  \/ /\ disk' = MapPut(disk, path, call[p].data)
              /\ pc' = [pc EXCEPT ![p] = "sc_insert"]
              /\ UNCHANGED ret
           \/ /\ disk' \in {disk} \cup {MapPut(disk, path, part) :
                                          part \in PartialWrites(call[p].data)}
              /\ ret' = [ret EXCEPT ![p] = [NoRet EXCEPT !.err = "write"]]
              /\ pc' = [pc EXCEPT ![p] = "unlock"]
    /\ UNCHANGED <<index, snapshot, indexLock, call, pre, hist, ncalls>>
    /\ UNCHANGED <<chunkVars, extVars, apiVars, clusterVars>>

\* StoreChunk lines 80-89: the new index entry, saveIndex, return
StoreInsert(p) ==
    /\ pc[p] = "sc_insert"
    /\ index' = StoreNew(index, call[p].hash, call[p].data)
    /\ snapshot' \in SaveIndex(index', snapshot)
    /\ ret' = [ret EXCEPT ![p] = [NoRet EXCEPT !.path = ChunkPath(call[p].hash),
                                                !.isNew = TRUE,
                                                !.saved = Saved(index', snapshot')]]
    /\ pc' = [pc EXCEPT ![p] = "unlock"]
    /\ UNCHANGED <<disk, indexLock, call, pre, hist, ncalls>>
    /\ UNCHANGED <<chunkVars, extVars, apiVars, clusterVars>>

\* ReleaseChunk lines 116-124 and 131-132: lookup, decrement, and the
\* save-and-return when references remain
ReleaseLookup(p) ==
    /\ pc[p] = "rc_lookup"
    /\ LET h == call[p].hash
       IN  IF h \notin DOMAIN index
           THEN /\ ret' = [ret EXCEPT ![p] = [NoRet EXCEPT !.err = "notfound"]]
                /\ pc' = [pc EXCEPT ![p] = "unlock"]
                /\ UNCHANGED <<index, snapshot>>
           ELSE /\ index' = ReleaseDecr(index, h)
                /\ IF index'[h].RefCount <= 0
                   THEN /\ pc' = [pc EXCEPT ![p] = "rc_remove"]
                        /\ UNCHANGED <<snapshot, ret>>
                   ELSE /\ snapshot' \in SaveIndex(index', snapshot)
                        /\ ret' = [ret EXCEPT ![p] =
                                     [NoRet EXCEPT !.saved = Saved(index', snapshot')]]
                        /\ pc' = [pc EXCEPT ![p] = "unlock"]
    /\ UNCHANGED <<disk, indexLock, call, pre, hist, ncalls>>
    /\ UNCHANGED <<chunkVars, extVars, apiVars, clusterVars>>

\* ReleaseChunk lines 125-131: os.Remove(metadata.StorePath), then delete
\* from the index and save; a failed Remove returns the error at once
ReleaseRemove(p) ==
    /\ pc[p] = "rc_remove"
    /\ LET h == call[p].hash
       IN  \/ /\ index[h].StorePath \in DOMAIN disk
              /\ disk' = MapDel(disk, index[h].StorePath)
              /\ index' = MapDel(index, h)
              /\ snapshot' \in SaveIndex(index', snapshot)
              /\ ret' = [ret EXCEPT ![p] =
                           [NoRet EXCEPT !.saved = Saved(index', snapshot')]]
              /\ pc' = [pc EXCEPT ![p] = "unlock"]
           \/ /\ ret' = [ret EXCEPT ![p] = [NoRet EXCEPT !.err = "remove"]]
              /\ pc' = [pc EXCEPT ![p] = "unlock"]
              /\ UNCHANGED <<index, disk, snapshot>>
    /\ UNCHANGED <<indexLock, call, pre, hist, ncalls>>
    /\ UNCHANGED <<chunkVars, extVars, apiVars, clusterVars>>

\* StoreChunk line 76, os.WriteFile(chunkPath, data): the file is opened with
\* O_TRUNC, which leaves it empty
StoreOpen(p) ==
    /\ pc[p] = "sc_write"
    /\ disk' = MapPut(disk, ChunkPath(call[p].hash), << >>)
    /\ pc' = [pc EXCEPT ![p] = "sc_fill"]
    /\ UNCHANGED <<index, snapshot, indexLock, call, ret, pre, hist, ncalls>>
    /\ UNCHANGED <<chunkVars, extVars, apiVars, clusterVars>>

\* StoreChunk lines 76-78, os.WriteFile goes on: the data is written to the
\* open file; a write that fails leaves a part of it and returns the error
StoreFill(p) ==
    /\ pc[p] = "sc_fill"
    /\ LET path == ChunkPath(call[p].hash)
       IN  \/ /\ disk' = MapPut(disk, path, call[p].data)
              /\ pc' = [pc EXCEPT ![p] = "sc_insert"]
              /\ UNCHANGED ret
           \/ /\ disk' \in {MapPut(disk, path, part) :
                               part \in PartialWrites(call[p].data)}
              /\ ret' = [ret EXCEPT ![p] = [NoRet EXCEPT !.err = "write"]]
              /\ pc' = [pc EXCEPT ![p] = "unlock"]
    /\ UNCHANGED <<index, snapshot, indexLock, call, pre, hist, ncalls>>
    /\ UNCHANGED <<chunkVars, extVars, apiVars, clusterVars>>

\* a client starts GetChunk(h)
CallGet(p, h) ==
    /\ pc[p] = "idle"
    /\ call' = [call EXCEPT ![p] = [op |-> "get", hash |-> h, data |-> << >>]]
    /\ pc' = [pc EXCEPT ![p] = "gc_lookup"]
    /\ ret' = [ret EXCEPT ![p] = NoRet]
    /\ UNCHANGED <<index, disk, snapshot, indexLock, pre, hist, ncalls>>
    /\ UNCHANGED <<chunkVars, extVars, apiVars, clusterVars>>

\* GetChunk lines 94-100: cs.indexLock.RLock(), the lookup, RUnlock(), and
\* the error when the hash is not in the index; ret.path is
\* metadata.StorePath, which GetChunk reads after the lock is given up
GetLookup(p) ==
    /\ pc[p] = "gc_lookup"
    /\ LockFree(p)
    /\ LET h == call[p].hash
       IN  IF h \notin DOMAIN index
           THEN /\ ret' = [ret EXCEPT ![p] = [NoRet EXCEPT !.err = "notfound"]]
                /\ pc' = [pc EXCEPT ![p] = "idle"]
           ELSE /\ ret' = [ret EXCEPT ![p] = [NoRet EXCEPT !.path = index[h].StorePath]]
                /\ pc' = [pc EXCEPT ![p] = "gc_read"]
    /\ UNCHANGED <<index, disk, snapshot, indexLock, call, pre, hist, ncalls>>
    /\ UNCHANGED <<chunkVars, extVars, apiVars, clusterVars>>

\* GetChunk lines 102-107: os.ReadFile(metadata.StorePath), outside the
\* lock; the bytes the file holds at that moment, or the error of a file
\* that is not there
GetRead(p) ==
    /\ pc[p] = "gc_read"
    /\ ret' = [ret EXCEPT ![p] =
                 IF ret[p].path \in DOMAIN disk
                 THEN [@ EXCEPT !.data = disk[ret[p].path]]
                 ELSE [@ EXCEPT !.err = "read"]]
    /\ pc' = [pc EXCEPT ![p] = "idle"]
    /\ UNCHANGED <<index, disk, snapshot, indexLock, call, pre, hist, ncalls>>
    /\ UNCHANGED <<chunkVars, extVars, apiVars, clusterVars>>

\* the deferred cs.indexLock.Unlock() and the return to the caller
Unlock(p) ==
    /\ pc[p] = "unlock"
    /\ indexLock' = 0
    /\ pc' = [pc EXCEPT ![p] = "idle"]
    /\ pre' = [pre EXCEPT ![p] = NoPre]
    /\ hist' = [hist EXCEPT ![call[p].hash] =
                  [@ EXCEPT !.ins = @ + (IF call[p].op = "store" /\ ret[p].err = "none"
                                         THEN 1 ELSE 0),
                            !.new = @ + (IF call[p].op = "store" /\ ret[p].isNew
                                         THEN 1 ELSE 0),
                            !.rel = @ + (IF call[p].op = "release" /\ ret[p].err = "none"
                                         THEN 1 ELSE 0)]]
    /\ UNCHANGED <<index, disk, snapshot, call, ret, ncalls>>
    /\ UNCHANGED <<chunkVars, extVars, apiVars, clusterVars>>

\* StoreChunk as one call (lines 54-90), all of it under cs.indexLock: the
\* index, the chunk directory and the index file it may leave behind, with
\* what it returns and the number of I/O calls that failed in it
StoreChunk(idx, dsk, snap, hash, data) ==
    LET saved(i2, jf) == IF jf = SnapshotOf(i2) THEN 0 ELSE 1
    IN  IF hash \in DOMAIN idx
        THEN {[index |-> StoreHit(idx, hash), disk |-> dsk, snapshot |-> jf,
               path |-> idx[hash].StorePath, isNew |-> FALSE, err |-> "none",
               faults |-> saved(StoreHit(idx, hash), jf)] :
                 jf \in SaveIndex(StoreHit(idx, hash), snap)}
        ELSE {[index |-> idx, disk |-> dsk, snapshot |-> snap,
               path |-> << >>, isNew |-> FALSE, err |-> "mkdir", faults |-> 1]}
             \cup
             {[index |-> idx, disk |-> d2, snapshot |-> snap,
               path |-> << >>, isNew |-> FALSE, err |-> "write", faults |-> 1] :
                 d2 \in {dsk} \cup {MapPut(dsk, ChunkPath(hash), part) :
                                      part \in PartialWrites(data)}}
             \cup
             {[index |-> StoreNew(idx, hash, data),
               disk |-> MapPut(dsk, ChunkPath(hash), data), snapshot |-> jf,
               path |-> ChunkPath(hash), isNew |-> TRUE, err |-> "none",
               faults |-> saved(StoreNew(idx, hash, data), jf)] :
                 jf \in SaveIndex(StoreNew(idx, hash, data), snap)}

\* ReleaseChunk as one call (lines 112-133), all of it under cs.indexLock:
\* the index, the chunk directory and the index file it leaves behind, the
\* error it returns and the number of I/O calls that failed in it
ReleaseChunk(idx, dsk, snap, hash) ==
    LET saved(i2, jf) == IF jf = SnapshotOf(i2) THEN 0 ELSE 1
        dec == ReleaseDecr(idx, hash)
        del == MapDel(dec, hash)
    IN  IF hash \notin DOMAIN idx
        THEN {[index |-> idx, disk |-> dsk, snapshot |-> snap,
               err |-> "notfound", faults |-> 0]}
        ELSE IF dec[hash].RefCount <= 0
        THEN {[index |-> dec, disk |-> dsk, snapshot |-> snap,
               err |-> "remove", faults |-> 1]}
             \cup
             (IF idx[hash].StorePath \in DOMAIN dsk
              THEN {[index |-> del, disk |-> MapDel(dsk, idx[hash].StorePath),
                     snapshot |-> jf, err |-> "none", faults |-> saved(del, jf)] :
                       jf \in SaveIndex(del, snap)}
              ELSE {})
        ELSE {[index |-> dec, disk |-> dsk, snapshot |-> jf,
               err |-> "none", faults |-> saved(dec, jf)] :
                 jf \in SaveIndex(dec, snap)}

\* GetStats lines 140-161 on an index: the sums, and space_saved as the code
\* computes it (the dedup_ratio is kept as the pair numerator, denominator)
RECURSIVE SumOver(_, _, _)
SumOver(idx, keys, field) ==
    IF keys = {} THEN 0
    ELSE LET k == CHOOSE x \in keys : TRUE
         IN  (IF field = "Size" THEN idx[k].Size ELSE idx[k].RefCount)
             + SumOver(idx, keys \ {k}, field)

GetStats(idx) ==
    LET totalChunks == Cardinality(DOMAIN idx)
        totalSize   == SumOver(idx, DOMAIN idx, "Size")
        totalRefs   == SumOver(idx, DOMAIN idx, "RefCount")
    IN  [unique_chunks    |-> totalChunks,
         total_references |-> totalRefs,
         storage_used     |-> totalSize,
         space_saved      |-> IF totalRefs > 0
                              THEN totalSize * (totalRefs - totalChunks)
                              ELSE 0,
         dedup_ratio      |-> <<totalRefs, IF totalChunks > 1 THEN totalChunks ELSE 1>>]

\* ------------------------------------------------------------------------
\* internal/crypto/encrypt.go
\* ------------------------------------------------------------------------

\* what rand.Reader may deliver as a salt (SaltSize bytes) and as a nonce
Salts == {<<1>>, <<2>>}
Nonces == {1, 2}

\* the passwords clients use, "" is an absent password: the ones given with
\* an upload and the ones given with a download
UploadPasswords == {"", "hunter2"}
Passwords == {"", "hunter2", "hunter3"}

NoKey == [Key |-> 0, Salt |-> << >>]

\* pbkdf2.Key(password, salt, ...): distinct (password, salt) pairs give
\* distinct keys (assumed of PBKDF2-HMAC-SHA256)
Pbkdf2(password, salt) ==
    (IF password = "hunter2" THEN 0 ELSE Cardinality(Salts)) + salt[1]

\* DeriveKey(password, salt) with the salt given, or drawn when it is nil
DeriveKey(password, salt) == [Key |-> Pbkdf2(password, salt), Salt |-> salt]

RECURSIVE SumSeq(_)
SumSeq(q) == IF q = << >> THEN 0 ELSE Head(q) + SumSeq(Tail(q))

ByteMod == ByteMax + 1
TagSpan == (MaxChunkSize + 1) * ByteMod

\* the GCM authentication tag over (nonce, ciphertext) under a key: tags made
\* under different keys differ (forgery is assumed impossible)
GcmTag(key, nonce, ct) == (key * TagSpan) + ((nonce + SumSeq(ct)) % TagSpan)

\* AES-GCM's keystream encryption of one byte, and its inverse
GcmXor(b, key, nonce) == (b + key + nonce) % ByteMod
GcmUnxor(c, key, nonce) == (c + (key + nonce) * ByteMax) % ByteMod

\* EncryptChunk: gcm.Seal(nonce, nonce, data, nil) = nonce || ciphertext || tag
EncryptChunk(data, key, nonce) ==
    LET ct == [i \in 1..Len(data) |-> GcmXor(data[i], key.Key, nonce)]
    IN  <<nonce>> \o ct \o <<GcmTag(key.Key, nonce, ct)>>

\* DecryptChunk: split off the nonce, gcm.Open verifies the tag and decrypts
DecryptChunk(ciphertext, key) ==
    IF Len(ciphertext) < NonceSize
    THEN [ok |-> FALSE, data |-> << >>]
    ELSE LET nonce == ciphertext[1]
             body  == SubSeq(ciphertext, NonceSize + 1, Len(ciphertext))
         IN  IF Len(body) < TagSize
             THEN [ok |-> FALSE, data |-> << >>]
             ELSE LET ct  == SubSeq(body, 1, Len(body) - TagSize)
                      tag == body[Len(body)]
                  IN  IF tag # GcmTag(key.Key, nonce, ct)
                      THEN [ok |-> FALSE, data |-> << >>]
                      ELSE [ok   |-> TRUE,
                            data |-> [i \in 1..Len(ct) |->
                                        GcmUnxor(ct[i], key.Key, nonce)]]

\* fmt.Sprintf("%x", salt) and hex.DecodeString: two hexadecimal digits a byte
RECURSIVE HexEncode(_)
HexEncode(bs) ==
    IF bs = << >> THEN << >>
    ELSE <<(Head(bs) \div 16), (Head(bs) % 16)>> \o HexEncode(Tail(bs))

RECURSIVE HexDecode(_)
HexDecode(hs) ==
    IF Len(hs) < 2 THEN << >>
    ELSE <<(hs[1] * 16) + hs[2]>> \o HexDecode(SubSeq(hs, 3, Len(hs)))

\* ------------------------------------------------------------------------
\* cmd/api-server/main.go (uploadHandler, downloadHandler, statsHandler)
\* ------------------------------------------------------------------------

\* the files clients upload: a file of two chunks, the file of one chunk that
\* is its first chunk, and the empty file
ApiFiles == {<<1, 1, 0, 0, 2>>, <<1, 1>>, << >>}

NoTask == [kind |-> "none", fileID |-> 0, bytes |-> << >>, password |-> "",
           key |-> NoKey, chunks |-> << >>, i |-> 0, hashes |-> << >>,
           newStored |-> 0, out |-> << >>, repeats |-> {}, phase |-> "",
           targets |-> << >>, j |-> 0, accepted |-> 0, fault |-> FALSE,
           cluster |-> {}]

\* a response: the request it answers (kind, fileID, password), the status
\* line, the body bytes, the http.Error text after them, whether an I/O call
\* of the answering step failed, and the fields of the upload's JSON
NoResp == [kind |-> "none", status |-> 0, fileID |-> 0, password |-> "",
           body |-> << >>, error |-> "", fault |-> FALSE,
           chunks_stored |-> 0, dedup_ratio |-> <<0, 1>>,
           chunk_hashes |-> << >>, encrypted |-> FALSE]

\* http.Error(w, msg, code) once t.i chunks went out with w.Write: the first
\* Write already sent status 200, the later WriteHeader(code) is ignored and
\* msg follows the bytes written
HttpError(t, code, msg, fault) ==
    [NoResp EXCEPT !.kind = t.kind,
                   !.status = IF t.i > 0 THEN 200 ELSE code,
                   !.fileID = t.fileID,
                   !.password = t.password,
                   !.body = t.out,
                   !.error = msg,
                   !.fault = fault]

MaxOf(a, b) == IF a > b THEN a ELSE b

\* uploadHandler lines 345-392: the form is parsed, the key derived from the
\* password with a fresh salt, the file ID drawn and the file chunked
UploadBegin(p, F, password) ==
    /\ task[p].kind = "none"
    /\ nuploads < MaxUploads
    /\ nuploads' = nuploads + 1
    /\ \E salt \in Salts :
         task' = [task EXCEPT ![p] =
                    [NoTask EXCEPT
                       !.kind = "upload",
                       !.fileID = nuploads + 1,
                       !.bytes = F,
                       !.password = password,
                       !.key = IF password # "" THEN DeriveKey(password, salt) ELSE NoKey,
                       !.chunks = ChunkFile(F),
                       !.repeats = {f \in DOMAIN uploads :
                                      /\ password = ""
                                      /\ uploads[f].password = ""
                                      /\ uploads[f].bytes = F}]]
    /\ resp' = NoResp
    /\ UNCHANGED <<files, uploads, ndownloads, nfaults>>
    /\ UNCHANGED <<chunkVars, extVars, storeVars, clusterVars>>

\* an upload that keeps the hash of the plain chunk for the sealed bytes
UploadHashOfPlain(chunk, chunkData, encrypted) == chunk.Hash

\* the hash uploadHandler stores a chunk under: chunk.Hash, recomputed over
\* the sealed bytes when the upload is encrypted (lines 411-413)
UploadHash(chunk, chunkData, encrypted) ==
    IF encrypted THEN Sha256Hex(chunkData) ELSE chunk.Hash

\* uploadHandler lines 398-432, one turn of the loop: the chunk is sealed
\* when a password was given, chunkStore.StoreChunk stores it (the call is
\* atomic, it holds cs.indexLock throughout), an error ends the request with
\* 500, otherwise the hash is recorded and a new chunk counted
UploadChunk(p) ==
    /\ task[p].kind = "upload"
    /\ task[p].i < Len(task[p].chunks)
    /\ LockFree(p)
    /\ LET t         == task[p]
           chunk     == t.chunks[t.i + 1]
           encrypted == t.password # ""
       IN  \E nonce \in Nonces :
             LET chunkData == IF encrypted
                              THEN EncryptChunk(chunk.Data, t.key, nonce)
                              ELSE chunk.Data
                 hash      == UploadHash(chunk, chunkData, encrypted)
             IN  \E r \in StoreChunk(index, disk, snapshot, hash, chunkData) :
                   /\ nfaults + r.faults <= MaxFaults
                   /\ nfaults' = nfaults + r.faults
                   /\ index' = r.index
                   /\ disk' = r.disk
                   /\ snapshot' = r.snapshot
                   /\ IF r.err # "none"
                      THEN /\ resp' = [NoResp EXCEPT !.kind = "upload",
                                                   !.status = 500,
                                                   !.fileID = t.fileID,
                                                   !.error = "store",
                                                   !.fault = TRUE]
                           /\ task' = [task EXCEPT ![p] = NoTask]
                      ELSE /\ task' = [task EXCEPT
                                         ![p].i = @ + 1,
                                         ![p].hashes = Append(@, hash),
                                         ![p].newStored = @ + (IF r.isNew THEN 1 ELSE 0)]
                           /\ resp' = NoResp
    /\ UNCHANGED <<indexLock, pc, call, ret, pre, hist, ncalls>>
    /\ UNCHANGED <<files, uploads, nuploads, ndownloads>>
    /\ UNCHANGED <<chunkVars, extVars, clusterVars>>

\* an uploadHandler that writes the metadata file as soon as one chunk is
\* stored, before the loop over the chunks is over
UploadFinishEarly(p) ==
    /\ task[p].kind = "upload"
    /\ task[p].i >= MinOf(1, Len(task[p].chunks))
    /\ LET t == task[p]
           response == [NoResp EXCEPT
                          !.kind = "upload",
                          !.status = 200,
                          !.fileID = t.fileID,
                          !.chunk_hashes = t.hashes,
                          !.chunks_stored = t.newStored,
                          !.dedup_ratio = <<Len(t.chunks), MaxOf(t.newStored, 1)>>,
                          !.encrypted = t.password # ""]
       IN  \/ /\ files' = MapPut(files, t.fileID,
                                 [FileID      |-> t.fileID,
                                  Size        |-> Len(t.bytes),
                                  ChunkHashes |-> t.hashes,
                                  Encrypted   |-> t.password # "",
                                  Salt        |-> HexEncode(t.key.Salt)])
              /\ resp' = response
              /\ uploads' = MapPut(uploads, t.fileID,
                                   [bytes        |-> t.bytes,
                                    password     |-> t.password,
                                    chunksStored |-> t.newStored,
                                    repeats      |-> t.repeats])
              /\ UNCHANGED nfaults
           \/ /\ nfaults < MaxFaults
              /\ nfaults' = nfaults + 1
              /\ resp' = [NoResp EXCEPT !.kind = "upload",
                                       !.status = 500,
                                       !.fileID = t.fileID,
                                       !.error = "metadata",
                                       !.fault = TRUE]
              /\ UNCHANGED <<files, uploads>>
    /\ task' = [task EXCEPT ![p] = NoTask]
    /\ UNCHANGED <<nuploads, ndownloads>>
    /\ UNCHANGED <<chunkVars, extVars, storeVars, clusterVars>>

\* uploadHandler lines 435-477: the dedup ratio, the metadata file (whose
\* write may fail with 500) and the response
UploadFinish(p) ==
    /\ task[p].kind = "upload"
    /\ task[p].i = Len(task[p].chunks)
    /\ LET t == task[p]
           response == [NoResp EXCEPT
                          !.kind = "upload",
                          !.status = 200,
                          !.fileID = t.fileID,
                          !.chunk_hashes = t.hashes,
                          !.chunks_stored = t.newStored,
                          !.dedup_ratio = <<Len(t.chunks), MaxOf(t.newStored, 1)>>,
                          !.encrypted = t.password # ""]
       IN  \/ /\ files' = MapPut(files, t.fileID,
                                 [FileID      |-> t.fileID,
                                  Size        |-> Len(t.bytes),
                                  ChunkHashes |-> t.hashes,
                                  Encrypted   |-> t.password # "",
                                  Salt        |-> HexEncode(t.key.Salt)])
              /\ resp' = response
              /\ uploads' = MapPut(uploads, t.fileID,
                                   [bytes        |-> t.bytes,
                                    password     |-> t.password,
                                    chunksStored |-> t.newStored,
                                    repeats      |-> t.repeats])
              /\ UNCHANGED nfaults
           \/ /\ nfaults < MaxFaults
              /\ nfaults' = nfaults + 1
              /\ resp' = [NoResp EXCEPT !.kind = "upload",
                                       !.status = 500,
                                       !.fileID = t.fileID,
                                       !.error = "metadata",
                                       !.fault = TRUE]
              /\ UNCHANGED <<files, uploads>>
    /\ task' = [task EXCEPT ![p] = NoTask]
    /\ UNCHANGED <<nuploads, ndownloads>>
    /\ UNCHANGED <<chunkVars, extVars, storeVars, clusterVars>>

\* a downloadHandler that lets a request without password through to the
\* chunk loop
DownloadBeginUnchecked(p, fileID, password) ==
    /\ task[p].kind = "none"
    /\ ndownloads < MaxDownloads
    /\ ndownloads' = ndownloads + 1
    /\ IF fileID \notin DOMAIN files
       THEN /\ resp' = [NoResp EXCEPT !.kind = "download",
                                     !.status = 404,
                                     !.fileID = fileID,
                                     !.password = password,
                                     !.error = "notfound"]
            /\ UNCHANGED task
       ELSE /\ task' = [task EXCEPT ![p] =
                          [NoTask EXCEPT
                             !.kind = "download",
                             !.fileID = fileID,
                             !.password = password,
                             !.key = IF files[fileID].Encrypted
                                     THEN DeriveKey(password, HexDecode(files[fileID].Salt))
                                     ELSE NoKey,
                             !.hashes = files[fileID].ChunkHashes]]
            /\ resp' = NoResp
    /\ UNCHANGED <<files, uploads, nuploads, nfaults>>
    /\ UNCHANGED <<chunkVars, extVars, storeVars, clusterVars>>

\* downloadHandler lines 480-529: the metadata is read (404 when absent), an
\* encrypted file needs a password (401), the key is derived from the
\* password and the stored salt
DownloadBegin(p, fileID, password) ==
    /\ task[p].kind = "none"
    /\ ndownloads < MaxDownloads
    /\ ndownloads' = ndownloads + 1
    /\ IF fileID \notin DOMAIN files
       THEN /\ resp' = [NoResp EXCEPT !.kind = "download",
                                     !.status = 404,
                                     !.fileID = fileID,
                                     !.password = password,
                                     !.error = "notfound"]
            /\ UNCHANGED task
       ELSE IF files[fileID].Encrypted /\ password = ""
       THEN /\ resp' = [NoResp EXCEPT !.kind = "download",
                                     !.status = 401,
                                     !.fileID = fileID,
                                     !.password = password,
                                     !.error = "auth_required"]
            /\ UNCHANGED task
       ELSE /\ task' = [task EXCEPT ![p] =
                          [NoTask EXCEPT
                             !.kind = "download",
                             !.fileID = fileID,
                             !.password = password,
                             !.key = IF files[fileID].Encrypted
                                     THEN DeriveKey(password, HexDecode(files[fileID].Salt))
                                     ELSE NoKey,
                             !.hashes = files[fileID].ChunkHashes]]
            /\ resp' = NoResp
    /\ UNCHANGED <<files, uploads, nuploads, nfaults>>
    /\ UNCHANGED <<chunkVars, extVars, storeVars, clusterVars>>

\* GetChunk lines 93-108: the lookup under the read lock, then os.ReadFile,
\* which may fail
GetChunk(idx, dsk, hash) ==
    IF hash \notin DOMAIN idx
    THEN {[ok |-> FALSE, data |-> << >>, faults |-> 0]}
    ELSE IF idx[hash].StorePath \notin DOMAIN dsk
    THEN {[ok |-> FALSE, data |-> << >>, faults |-> 0]}
    ELSE {[ok |-> FALSE, data |-> << >>, faults |-> 1],
          [ok |-> TRUE, data |-> dsk[idx[hash].StorePath], faults |-> 0]}

\* downloadHandler lines 532-555, one turn of the loop: the chunk is fetched
\* with GetChunk (500 when that fails), decrypted when the file is encrypted
\* (401 when that fails) and written to the response
DownloadChunk(p) ==
    /\ task[p].kind = "download"
    /\ task[p].i < Len(task[p].hashes)
    /\ LockFree(p)
    /\ LET t == task[p]
       IN  \E got \in GetChunk(index, disk, t.hashes[t.i + 1]) :
             /\ nfaults + got.faults <= MaxFaults
             /\ nfaults' = nfaults + got.faults
             /\ IF ~got.ok
                THEN /\ resp' = HttpError(t, 500, "retrieve", got.faults > 0)
                     /\ task' = [task EXCEPT ![p] = NoTask]
                ELSE LET dec == IF files[t.fileID].Encrypted
                                THEN DecryptChunk(got.data, t.key)
                                ELSE [ok |-> TRUE, data |-> got.data]
                     IN  IF ~dec.ok
                         THEN /\ resp' = HttpError(t, 401, "decrypt", FALSE)
                              /\ task' = [task EXCEPT ![p] = NoTask]
                         ELSE /\ task' = [task EXCEPT ![p].i = @ + 1,
                                                      ![p].out = @ \o dec.data]
                              /\ resp' = NoResp
    /\ UNCHANGED <<files, uploads, nuploads, ndownloads>>
    /\ UNCHANGED <<chunkVars, extVars, storeVars, clusterVars>>

\* downloadHandler lines 555-558: every chunk was written; the response ends
DownloadFinish(p) ==
    /\ task[p].kind = "download"
    /\ task[p].i = Len(task[p].hashes)
    /\ resp' = [NoResp EXCEPT !.kind = "download",
                              !.status = 200,
                              !.fileID = task[p].fileID,
                              !.password = task[p].password,
                              !.body = task[p].out]
    /\ task' = [task EXCEPT ![p] = NoTask]
    /\ UNCHANGED <<files, uploads, nuploads, ndownloads, nfaults>>
    /\ UNCHANGED <<chunkVars, extVars, storeVars, clusterVars>>

\* ------------------------------------------------------------------------
\* internal/node/consistent_hash.go
\* ------------------------------------------------------------------------

NodeIDs == 1..NumNodes
Handlers == 1..NumHandlers
RingSize == Pow2(RingBits)

\* hashKey: the first 4 bytes of SHA-256 of the key, a fixed scattering of
\* the keys over the ring positions.  As with the 32 bits of the code, two
\* keys may fall on one position: the virtual nodes <<1, 0>> and <<4, 1>> do
RECURSIVE HashFold(_, _)
HashFold(key, h) ==
    IF key = << >> THEN h
    ELSE HashFold(Tail(key), ((h * 5) + ((Head(key) + 1) * 9)) % RingSize)

hashKey(key) == HashFold(key, 0)

\* fmt.Sprintf("%s-vnode-%d", nodeID, i)
VirtualNodeID(nodeID, i) == <<nodeID, i>>

\* sort.Slice(ch.sortedHashes, less)
RECURSIVE SortInsert(_, _)
SortInsert(q, x) ==
    IF q = << >> THEN <<x>>
    ELSE IF x <= Head(q) THEN <<x>> \o q
    ELSE <<Head(q)>> \o SortInsert(Tail(q), x)

RECURSIVE SortSlice(_)
SortSlice(q) == IF q = << >> THEN << >> ELSE SortInsert(SortSlice(Tail(q)), Head(q))

NewConsistentHash == [circle |-> << >>, sortedHashes |-> << >>, nodes |-> {}]

\* ch.circle[hash]: the zero value for a key the map does not hold
CircleAt(ch, hash) == IF hash \in DOMAIN ch.circle THEN ch.circle[hash] ELSE 0

\* AddNode, one turn of the loop: the ring entry of virtual node i
AddVirtualNode(ch, nodeID, i) ==
    LET hash == hashKey(VirtualNodeID(nodeID, i))
    IN  [ch EXCEPT !.circle = MapPut(@, hash, nodeID),
                   !.sortedHashes = Append(@, hash)]

\* RemoveNode, one turn of the loop: delete(ch.circle, hash)
RemoveVirtualNode(ch, nodeID, i) ==
    [ch EXCEPT !.circle = MapDel(@, hashKey(VirtualNodeID(nodeID, i)))]

\* AddNode: one ring entry per virtual node, the positions sorted again
RECURSIVE AddVirtualNodes(_, _, _)
AddVirtualNodes(ch, nodeID, i) ==
    IF i = VirtualNodesPerNode THEN ch
    ELSE AddVirtualNodes(AddVirtualNode(ch, nodeID, i), nodeID, i + 1)

AddNode(ch, nodeID) ==
    LET added == AddVirtualNodes(ch, nodeID, 0)
    IN  [added EXCEPT !.sortedHashes = SortSlice(@),
                      !.nodes = @ \cup {nodeID}]

\* RemoveNode: the ring entries at the positions of the node's virtual nodes
\* are deleted, sortedHashes is built again from the keys of circle
RECURSIVE RemoveVirtualNodes(_, _, _)
RemoveVirtualNodes(ch, nodeID, i) ==
    IF i = VirtualNodesPerNode THEN ch
    ELSE RemoveVirtualNodes(RemoveVirtualNode(ch, nodeID, i), nodeID, i + 1)

\* the keys of a map as a sequence, in some order
RECURSIVE KeysOf(_)
KeysOf(f) ==
    IF DOMAIN f = {} THEN << >>
    ELSE LET k == CHOOSE x \in DOMAIN f : TRUE
         IN  <<k>> \o KeysOf(MapDel(f, k))

RebuildSorted(ch) == [ch EXCEPT !.sortedHashes = SortSlice(KeysOf(ch.circle))]

RemoveNode(ch, nodeID) ==
    LET removed == RebuildSorted(RemoveVirtualNodes(ch, nodeID, 0))
    IN  [removed EXCEPT !.nodes = @ \ {nodeID}]

\* sort.Search(len(sortedHashes), sortedHashes[i] >= hash), 0-based
RECURSIVE SearchFrom(_, _, _)
SearchFrom(sorted, hash, i) ==
    IF i >= Len(sorted) THEN Len(sorted)
    ELSE IF sorted[i + 1] >= hash THEN i
    ELSE SearchFrom(sorted, hash, i + 1)

\* GetNodes, the loop of lines 122-141: walk the ring from idx and collect
\* the nodes not yet selected, counting the positions examined.  idx is
\* reset to 0 whenever it reaches len, so the guard idx >= 2*len never
\* holds on a ring with entries: a walk that finds no new node in a whole
\* turn of the ring never ends (hang).  On a ring without entries
\* sortedHashes[0] is out of range (panic)
RECURSIVE GetNodesLoop(_, _, _, _, _, _)
GetNodesLoop(ch, count, idx, result, idle, steps) ==
    IF Len(result) >= count
    THEN [nodes |-> result, hang |-> FALSE, panic |-> FALSE, steps |-> steps]
    ELSE IF ch.sortedHashes = << >>
    THEN [nodes |-> result, hang |-> FALSE, panic |-> TRUE, steps |-> steps]
    ELSE IF idle > Len(ch.sortedHashes)
    THEN [nodes |-> result, hang |-> TRUE, panic |-> FALSE, steps |-> steps]
    ELSE LET at     == IF idx >= Len(ch.sortedHashes) THEN 0 ELSE idx
             nodeID == CircleAt(ch, ch.sortedHashes[at + 1])
             fresh  == \A k \in 1..Len(result) : result[k] # nodeID
             next   == IF fresh THEN Append(result, nodeID) ELSE result
         IN  IF at + 1 >= Len(ch.sortedHashes) * 2
             THEN [nodes |-> next, hang |-> FALSE, panic |-> FALSE,
                   steps |-> steps + 1]
             ELSE GetNodesLoop(ch, count, at + 1, next,
                               IF fresh THEN 0 ELSE idle + 1, steps + 1)

\* GetNodes(chunkHash, count): an error on a ring without nodes, otherwise
\* up to count distinct nodes in ring order from the position of the hash
GetNodes(ch, chunkHash, count) ==
    IF ch.nodes = {}
    THEN [err |-> TRUE, nodes |-> << >>, hang |-> FALSE, panic |-> FALSE, steps |-> 0]
    ELSE LET r == GetNodesLoop(ch, MinOf(count, Cardinality(ch.nodes)),
                               SearchFrom(ch.sortedHashes, hashKey(chunkHash), 0),
                               << >>, 0, 0)
         IN  [err |-> FALSE, nodes |-> r.nodes, hang |-> r.hang,
              panic |-> r.panic, steps |-> r.steps]

\* GetNode(chunkHash): an error on a ring without entries, otherwise the node
\* at the first position at or after the hash, wrapping around
GetNode(ch, chunkHash) ==
    IF DOMAIN ch.circle = {}
    THEN [err |-> TRUE, nodes |-> << >>, hang |-> FALSE, panic |-> FALSE, steps |-> 0]
    ELSE LET idx == SearchFrom(ch.sortedHashes, hashKey(chunkHash), 0)
             at  == IF idx = Len(ch.sortedHashes) THEN 0 ELSE idx
         IN  [err |-> FALSE, nodes |-> <<CircleAt(ch, ch.sortedHashes[at + 1])>>,
              hang |-> FALSE, panic |-> FALSE, steps |-> 1]

\* the node IDs handed to AddNode and RemoveNode: 2, 4 and 14 share no ring
\* position, node 1 shares one with node 4 and the other with node 14
RingNodeIDs == {1, 2, 4, 14}

\* chunk hashes falling on every ring position, and those the callers ask for
RingKeys == {<<x>> : x \in 0..(RingSize - 1)}
CallKeys == {<<2>>, <<10>>}

NoLookup == [err |-> FALSE, nodes |-> << >>, hang |-> FALSE, panic |-> FALSE,
             steps |-> 0]
NoRingCall == [op |-> "none", node |-> 0, key |-> << >>, count |-> 0, i |-> 0]
NoRingRet == [out |-> NoLookup, pre |-> NoLookup, post |-> NoLookup]
NoMutation == [pre |-> NewConsistentHash, post |-> NewConsistentHash]

\* the calls made on the ring
RingCalls ==
    {[NoRingCall EXCEPT !.op = o, !.node = n] : o \in {"add", "remove"}, n \in RingNodeIDs}
    \cup {[NoRingCall EXCEPT !.op = "getnode", !.key = k] : k \in CallKeys}
    \cup {[NoRingCall EXCEPT !.op = "getnodes", !.key = k, !.count = c] :
             k \in CallKeys, c \in {1, ReplicationFactor}}

\* GetNode or GetNodes, as the call asks
Lookup(ch, c) ==
    IF c.op = "getnode" THEN GetNode(ch, c.key) ELSE GetNodes(ch, c.key, c.count)

\* an RLock() that does not wait for the writer
CanRLockAlways(p) == TRUE

\* ch.mu.Lock() and ch.mu.RLock() can be taken
CanLock(p) == mu.writer = 0 /\ mu.readers = {}
CanRLock(p) == mu.writer = 0

\* the ring as the last completed mutation left it, and as the mutation in
\* progress will leave it
WholeRing == IF mu.writer = 0 THEN ring ELSE rmut.pre
TargetRing == IF mu.writer = 0 THEN ring ELSE rmut.post

\* a goroutine calls AddNode, RemoveNode, GetNode or GetNodes; RemoveNode is
\* called for nodes that are members of the ring
RingCall(p, c) ==
    /\ rpc[p] = "idle"
    /\ nrcalls < MaxRingCalls
    /\ c.op = "remove" => c.node \in ring.nodes
    /\ nrcalls' = nrcalls + 1
    /\ rcall' = [rcall EXCEPT ![p] = c]
    /\ rret' = [rret EXCEPT ![p] = NoRingRet]
    /\ rpc' = [rpc EXCEPT ![p] = "lock"]
    /\ UNCHANGED <<ring, registry, now, sn, regret, mu, rmut>>
    /\ UNCHANGED <<chunkVars, extVars, storeVars, apiVars>>

\* ch.mu.Lock() at the top of AddNode and RemoveNode
RingLock(p) ==
    /\ rpc[p] = "lock"
    /\ rcall[p].op \in {"add", "remove"}
    /\ CanLock(p)
    /\ mu' = [mu EXCEPT !.writer = p]
    /\ rmut' = [pre  |-> ring,
                post |-> IF rcall[p].op = "add" THEN AddNode(ring, rcall[p].node)
                         ELSE RemoveNode(ring, rcall[p].node)]
    /\ rpc' = [rpc EXCEPT ![p] = rcall[p].op]
    /\ UNCHANGED <<ring, registry, now, sn, regret, rcall, rret, nrcalls>>
    /\ UNCHANGED <<chunkVars, extVars, storeVars, apiVars>>

\* ch.mu.RLock() at the top of GetNode and GetNodes
RingRLock(p) ==
    /\ rpc[p] = "lock"
    /\ rcall[p].op \in {"getnode", "getnodes"}
    /\ CanRLock(p)
    /\ mu' = [mu EXCEPT !.readers = @ \cup {p}]
    /\ rpc' = [rpc EXCEPT ![p] = "read"]
    /\ UNCHANGED <<ring, registry, now, sn, regret, rcall, rret, rmut, nrcalls>>
    /\ UNCHANGED <<chunkVars, extVars, storeVars, apiVars>>

\* AddNode lines 39-44: one virtual node enters circle and sortedHashes
AddNodeStep(p) ==
    /\ rpc[p] = "add"
    /\ rcall[p].i < VirtualNodesPerNode
    /\ ring' = AddVirtualNode(ring, rcall[p].node, rcall[p].i)
    /\ rcall' = [rcall EXCEPT ![p].i = @ + 1]
    /\ UNCHANGED <<registry, now, sn, regret, mu, rpc, rret, rmut, nrcalls>>
    /\ UNCHANGED <<chunkVars, extVars, storeVars, apiVars>>

\* AddNode lines 46-50: sortedHashes is sorted, the node enters ch.nodes
AddNodeSort(p) ==
    /\ rpc[p] = "add"
    /\ rcall[p].i = VirtualNodesPerNode
    /\ ring' = [ring EXCEPT !.sortedHashes = SortSlice(@),
                            !.nodes = @ \cup {rcall[p].node}]
    /\ rpc' = [rpc EXCEPT ![p] = "unlock"]
    /\ UNCHANGED <<registry, now, sn, regret, mu, rcall, rret, rmut, nrcalls>>
    /\ UNCHANGED <<chunkVars, extVars, storeVars, apiVars>>

\* RemoveNode lines 59-63: the entry at the position of one virtual node is
\* deleted from circle
RemoveNodeStep(p) ==
    /\ rpc[p] = "remove"
    /\ rcall[p].i < VirtualNodesPerNode
    /\ ring' = RemoveVirtualNode(ring, rcall[p].node, rcall[p].i)
    /\ rcall' = [rcall EXCEPT ![p].i = @ + 1]
    /\ UNCHANGED <<registry, now, sn, regret, mu, rpc, rret, rmut, nrcalls>>
    /\ UNCHANGED <<chunkVars, extVars, storeVars, apiVars>>

\* RemoveNode lines 66-74: sortedHashes is built again, the node leaves
\* ch.nodes
RemoveNodeRebuild(p) ==
    /\ rpc[p] = "remove"
    /\ rcall[p].i = VirtualNodesPerNode
    /\ ring' = [RebuildSorted(ring) EXCEPT !.nodes = @ \ {rcall[p].node}]
    /\ rpc' = [rpc EXCEPT ![p] = "unlock"]
    /\ UNCHANGED <<registry, now, sn, regret, mu, rcall, rret, rmut, nrcalls>>
    /\ UNCHANGED <<chunkVars, extVars, storeVars, apiVars>>

\* GetNode and GetNodes read the ring; a walk that never ends keeps the
\* caller, and its read lock, for ever
RingRead(p) ==
    /\ rpc[p] = "read"
    /\ LET out == Lookup(ring, rcall[p])
       IN  /\ rret' = [rret EXCEPT ![p] = [out  |-> out,
                                           pre  |-> Lookup(WholeRing, rcall[p]),
                                           post |-> Lookup(TargetRing, rcall[p])]]
           /\ rpc' = [rpc EXCEPT ![p] = IF out.hang THEN "hung" ELSE "runlock"]
    /\ UNCHANGED <<ring, registry, now, sn, regret, mu, rcall, rmut, nrcalls>>
    /\ UNCHANGED <<chunkVars, extVars, storeVars, apiVars>>

\* the deferred ch.mu.Unlock() and ch.mu.RUnlock()
RingUnlock(p) ==
    /\ rpc[p] = "unlock"
    /\ mu' = [mu EXCEPT !.writer = 0]
    /\ rmut' = NoMutation
    /\ rpc' = [rpc EXCEPT ![p] = "idle"]
    /\ UNCHANGED <<ring, registry, now, sn, regret, rcall, rret, nrcalls>>
    /\ UNCHANGED <<chunkVars, extVars, storeVars, apiVars>>

RingRUnlock(p) ==
    /\ rpc[p] = "runlock"
    /\ mu' = [mu EXCEPT !.readers = @ \ {p}]
    /\ rpc' = [rpc EXCEPT ![p] = "idle"]
    /\ UNCHANGED <<ring, registry, now, sn, regret, rcall, rret, rmut, nrcalls>>
    /\ UNCHANGED <<chunkVars, extVars, storeVars, apiVars>>

\* ------------------------------------------------------------------------
\* internal/node/registry.go
\* ------------------------------------------------------------------------

\* RegisterNode: the NodeInfo is (re)created, healthy, LastSeen = time.Now()
RegisterNode(reg, nodeID, t) ==
    MapPut(reg, nodeID, [NodeID      |-> nodeID,
                         Status      |-> "healthy",
                         TotalChunks |-> 0,
                         LastSeen    |-> t,
                         Used        |-> 0])

\* an UpdateHeartbeat that registers the node it does not know
UpdateHeartbeatUpsert(reg, nodeID, totalChunks, used, t) ==
    [registry |-> MapPut(reg, nodeID, [NodeID      |-> nodeID,
                                       Status      |-> "healthy",
                                       TotalChunks |-> totalChunks,
                                       LastSeen    |-> t,
                                       Used        |-> used]),
     err |-> FALSE]

\* UpdateHeartbeat: an error for a node that is not registered, otherwise
\* LastSeen, the counters and the status of the node are set
UpdateHeartbeat(reg, nodeID, totalChunks, used, t) ==
    IF nodeID \notin DOMAIN reg
    THEN [registry |-> reg, err |-> TRUE]
    ELSE [registry |-> [reg EXCEPT ![nodeID].LastSeen = t,
                                   ![nodeID].TotalChunks = totalChunks,
                                   ![nodeID].Used = used,
                                   ![nodeID].Status = "healthy"],
          err |-> FALSE]

\* GetHealthyNodes: every node gets the status its last heartbeat gives it
\* now, and those younger than the timeout are returned
GetHealthyNodes(reg, t) ==
    LET marked == [n \in DOMAIN reg |->
                     [reg[n] EXCEPT !.Status =
                        IF t - reg[n].LastSeen < HeartbeatTimeout
                        THEN "healthy" ELSE "offline"]]
    IN  [registry |-> marked,
         nodes    |-> {marked[n] : n \in {m \in DOMAIN reg :
                                            t - reg[m].LastSeen < HeartbeatTimeout}}]

\* Registry.GetNode: the NodeInfo as it is stored, or an error
RegistryGetNode(reg, nodeID) ==
    IF nodeID \in DOMAIN reg
    THEN [nodes |-> {reg[nodeID]}, err |-> FALSE]
    ELSE [nodes |-> {}, err |-> TRUE]

\* GetAllNodes: every NodeInfo as it is stored
GetAllNodes(reg) == {reg[n] : n \in DOMAIN reg}

\* Registry.RemoveNode: delete(r.nodes, nodeID)
RegistryRemoveNode(reg, nodeID) == MapDel(reg, nodeID)

\* the nodes that register and send heartbeats, and what a heartbeat reports
\* as <<total_chunks, used>>
RegistryNodeIDs == {1, 2}
HeartbeatLoads == {<<0, 0>>, <<1, 2>>}

\* GetNodeCount: len(r.nodes)
GetNodeCount(reg) == Cardinality(DOMAIN reg)

NoRegistryCall == [op |-> "none", node |-> 0, err |-> FALSE, nodes |-> {},
                   count |-> 0, lock |-> "none", before |-> << >>]

\* the calls on the registry, each under r.nodeLock: lock is "Lock" for the
\* calls that take r.nodeLock.Lock() and "RLock" for those that take
\* r.nodeLock.RLock()
CallRegisterNode(n) ==
    /\ registry' = RegisterNode(registry, n, now)
    /\ regret' = [NoRegistryCall EXCEPT !.op = "register", !.node = n,
                                        !.lock = "Lock",
                                        !.before = registry]
    /\ UNCHANGED <<ring, now, sn, ringVars>>
    /\ UNCHANGED <<chunkVars, extVars, storeVars, apiVars>>

CallUpdateHeartbeat(n, load) ==
    /\ LET r == UpdateHeartbeat(registry, n, load[1], load[2], now)
       IN  /\ registry' = r.registry
           /\ regret' = [NoRegistryCall EXCEPT !.op = "heartbeat", !.node = n,
                                               !.lock = "Lock",
                                               !.err = r.err,
                                               !.before = registry]
    /\ UNCHANGED <<ring, now, sn, ringVars>>
    /\ UNCHANGED <<chunkVars, extVars, storeVars, apiVars>>

CallGetHealthyNodes ==
    /\ LET r == GetHealthyNodes(registry, now)
       IN  /\ registry' = r.registry
           /\ regret' = [NoRegistryCall EXCEPT !.op = "healthy",
                                               !.lock = "RLock",
                                               !.nodes = r.nodes,
                                               !.before = registry]
    /\ UNCHANGED <<ring, now, sn, ringVars>>
    /\ UNCHANGED <<chunkVars, extVars, storeVars, apiVars>>

CallGetNode(n) ==
    /\ LET r == RegistryGetNode(registry, n)
       IN  regret' = [NoRegistryCall EXCEPT !.op = "getnode", !.node = n,
                                           !.lock = "RLock",
                                           !.err = r.err, !.nodes = r.nodes,
                                           !.before = registry]
    /\ UNCHANGED <<ring, registry, now, sn, ringVars>>
    /\ UNCHANGED <<chunkVars, extVars, storeVars, apiVars>>

CallGetAllNodes ==
    /\ regret' = [NoRegistryCall EXCEPT !.op = "getall",
                                        !.lock = "RLock",
                                        !.nodes = GetAllNodes(registry),
                                        !.before = registry]
    /\ UNCHANGED <<ring, registry, now, sn, ringVars>>
    /\ UNCHANGED <<chunkVars, extVars, storeVars, apiVars>>

CallRemoveNode(n) ==
    /\ registry' = RegistryRemoveNode(registry, n)
    /\ regret' = [NoRegistryCall EXCEPT !.op = "remove", !.node = n,
                                        !.lock = "Lock",
                                        !.before = registry]
    /\ UNCHANGED <<ring, now, sn, ringVars>>
    /\ UNCHANGED <<chunkVars, extVars, storeVars, apiVars>>

CallGetNodeCount ==
    /\ regret' = [NoRegistryCall EXCEPT !.op = "count",
                                        !.lock = "RLock",
                                        !.count = GetNodeCount(registry),
                                        !.before = registry]
    /\ UNCHANGED <<ring, registry, now, sn, ringVars>>
    /\ UNCHANGED <<chunkVars, extVars, storeVars, apiVars>>

\* time passes
Tick ==
    /\ now < MaxTime
    /\ now' = now + 1
    /\ regret' = NoRegistryCall
    /\ UNCHANGED <<ring, registry, sn, ringVars>>
    /\ UNCHANGED <<chunkVars, extVars, storeVars, apiVars>>

\* the deletion of a file (a hook against the index, specification section 8,
\* scenario 6): it takes the chunk hashes of the file record
DeleteBegin(p, fileID) ==
    /\ task[p].kind = "none"
    /\ fileID \in DOMAIN files
    /\ \A q \in Procs : ~(task[q].kind = "delete" /\ task[q].fileID = fileID)
    /\ task' = [task EXCEPT ![p] =
                  [NoTask EXCEPT !.kind = "delete",
                                 !.fileID = fileID,
                                 !.hashes = files[fileID].ChunkHashes]]
    /\ resp' = NoResp
    /\ UNCHANGED <<files, uploads, nuploads, ndownloads, nfaults>>
    /\ UNCHANGED <<chunkVars, extVars, storeVars, clusterVars>>

\* the deletion, one turn: chunkStore.ReleaseChunk on the next hash of the
\* file (an error is noted and the deletion goes on)
DeleteRelease(p) ==
    /\ task[p].kind = "delete"
    /\ task[p].i < Len(task[p].hashes)
    /\ LockFree(p)
    /\ LET t == task[p]
       IN  \E r \in ReleaseChunk(index, disk, snapshot, t.hashes[t.i + 1]) :
             /\ nfaults + r.faults <= MaxFaults
             /\ nfaults' = nfaults + r.faults
             /\ index' = r.index
             /\ disk' = r.disk
             /\ snapshot' = r.snapshot
             /\ task' = [task EXCEPT ![p].i = @ + 1,
                                     ![p].fault = @ \/ r.err # "none"]
    /\ resp' = NoResp
    /\ UNCHANGED <<indexLock, pc, call, ret, pre, hist, ncalls>>
    /\ UNCHANGED <<files, uploads, nuploads, ndownloads>>
    /\ UNCHANGED <<chunkVars, extVars, clusterVars>>

\* the deletion ends: every reference of the file is released and the file
\* record is removed
DeleteFinish(p) ==
    /\ task[p].kind = "delete"
    /\ task[p].i = Len(task[p].hashes)
    /\ files' = MapDel(files, task[p].fileID)
    /\ resp' = [NoResp EXCEPT !.kind = "delete",
                              !.status = 200,
                              !.fileID = task[p].fileID,
                              !.chunk_hashes = task[p].hashes,
                              !.fault = task[p].fault]
    /\ task' = [task EXCEPT ![p] = NoTask]
    /\ UNCHANGED <<uploads, nuploads, ndownloads, nfaults>>
    /\ UNCHANGED <<chunkVars, extVars, storeVars, clusterVars>>

\* ------------------------------------------------------------------------
\* the storage node (StorageNode: storeChunkHandler, retrieveChunkHandler)
\* ------------------------------------------------------------------------

NewStorageNode == [up |-> FALSE, chunks |-> {}, disk |-> << >>]

\* storeChunkHandler: MkdirAll, WriteFile (either may fail with 500, the
\* write leaving the file as it was or partly written), then
\* sn.chunks[hash] = true
storeChunkHandler(node, hash, data) ==
    {[node |-> node, ok |-> FALSE, faults |-> 1]}
    \cup
    {[node |-> [node EXCEPT !.disk = MapPut(@, hash, part)],
      ok |-> FALSE, faults |-> 1] : part \in PartialWrites(data)}
    \cup
    {[node |-> [node EXCEPT !.disk = MapPut(@, hash, data),
                            !.chunks = @ \cup {hash}],
      ok |-> TRUE, faults |-> 0]}

\* retrieveChunkHandler: 404 for a hash that is not tracked, 500 when the
\* file cannot be read, otherwise 200 with the bytes of the file
retrieveChunkHandler(node, hash) ==
    IF hash \notin node.chunks
    THEN {[status |-> 404, data |-> << >>, faults |-> 0]}
    ELSE IF hash \notin DOMAIN node.disk
    THEN {[status |-> 500, data |-> << >>, faults |-> 0]}
    ELSE {[status |-> 500, data |-> << >>, faults |-> 1],
          [status |-> 200, data |-> node.disk[hash], faults |-> 0]}

\* the node process starts (Start: the node serves and registers); the
\* coordinator's /register handler enters it in the registry and the ring
NodeStart(n) ==
    /\ ~sn[n].up
    /\ n \notin DOMAIN registry
    /\ sn' = [sn EXCEPT ![n].up = TRUE]
    /\ registry' = RegisterNode(registry, n, now)
    /\ ring' = AddNode(ring, n)
    /\ resp' = NoResp
    /\ UNCHANGED <<now, ringVars, regret>>
    /\ UNCHANGED <<task, files, uploads, nuploads, ndownloads, nfaults>>
    /\ UNCHANGED <<chunkVars, extVars, storeVars>>

\* a node process is killed: sn.chunks is gone with it, its files stay
Kill(n) ==
    /\ sn[n].up
    /\ sn' = [sn EXCEPT ![n].up = FALSE, ![n].chunks = {}]
    /\ resp' = NoResp
    /\ UNCHANGED <<ring, registry, now, ringVars, regret>>
    /\ UNCHANGED <<task, files, uploads, nuploads, ndownloads, nfaults>>
    /\ UNCHANGED <<chunkVars, extVars, storeVars>>

\* ------------------------------------------------------------------------
\* the coordinator's replicated upload and download (specification 4.7; the
\* handlers themselves are not part of the sources)
\* ------------------------------------------------------------------------

\* the files clients upload to the cluster, without password: a file of two
\* different chunks and a file of two equal chunks
ClusterFiles == {<<1, 1, 0, 0, 2>>, <<0, 0, 2, 0, 0, 2>>}

\* upload steps 1 and 2: the file ID is drawn and the file chunked
ClusterUploadBegin(p, F) ==
    /\ task[p].kind = "none"
    /\ nuploads < MaxClusterUploads
    /\ nuploads' = nuploads + 1
    /\ task' = [task EXCEPT ![p] =
                  [NoTask EXCEPT !.kind = "cupload",
                                 !.phase = "place",
                                 !.fileID = nuploads + 1,
                                 !.bytes = F,
                                 !.chunks = ChunkFile(F),
                                 !.cluster = {n \in ring.nodes : sn[n].up}]]
    /\ resp' = NoResp
    /\ UNCHANGED <<files, uploads, ndownloads, nfaults>>
    /\ UNCHANGED <<chunkVars, extVars, storeVars, clusterVars>>

\* upload step 3b: with a healthy node in the registry the targets of the
\* chunk are ring.replicas(hash, R), otherwise there is none
ClusterUploadPlace(p) ==
    /\ task[p].kind = "cupload"
    /\ task[p].phase = "place"
    /\ task[p].i < Len(task[p].chunks)
    /\ LET hash == task[p].chunks[task[p].i + 1].Hash
           r    == GetNodes(ring, hash, ReplicationFactor)
           hn   == GetHealthyNodes(registry, now)
       IN  /\ ~r.hang
           /\ registry' = hn.registry
           /\ task' = [task EXCEPT
                         ![p].phase = "post",
                         ![p].targets = IF hn.nodes # {} THEN r.nodes ELSE << >>,
                         ![p].j = 0,
                         ![p].accepted = 0]
    /\ resp' = NoResp
    /\ UNCHANGED <<ring, now, sn, ringVars, regret>>
    /\ UNCHANGED <<files, uploads, nuploads, ndownloads, nfaults>>
    /\ UNCHANGED <<chunkVars, extVars, storeVars>>

\* upload step 3c: the chunk is posted to the next replica; a node that is
\* down or whose store fails does not accept it
ClusterUploadPost(p) ==
    /\ task[p].kind = "cupload"
    /\ task[p].phase = "post"
    /\ task[p].j < Len(task[p].targets)
    /\ LET t     == task[p]
           n     == t.targets[t.j + 1]
           chunk == t.chunks[t.i + 1]
       IN  IF ~sn[n].up
           THEN /\ task' = [task EXCEPT ![p].j = @ + 1]
                /\ UNCHANGED <<sn, nfaults>>
           ELSE \E r \in storeChunkHandler(sn[n], chunk.Hash, chunk.Data) :
                  /\ nfaults + r.faults <= MaxFaults
                  /\ nfaults' = nfaults + r.faults
                  /\ sn' = [sn EXCEPT ![n] = r.node]
                  /\ task' = [task EXCEPT ![p].j = @ + 1,
                                          ![p].accepted = @ + (IF r.ok THEN 1 ELSE 0)]
    /\ resp' = NoResp
    /\ UNCHANGED <<ring, registry, now, ringVars, regret>>
    /\ UNCHANGED <<files, uploads, nuploads, ndownloads>>
    /\ UNCHANGED <<chunkVars, extVars, storeVars>>

\* upload steps 3c and 3d: a chunk that no replica accepted goes to the local
\* dedup index (write_failed when that fails too); the chunk is recorded
ClusterUploadRecord(p) ==
    /\ task[p].kind = "cupload"
    /\ task[p].phase = "post"
    /\ task[p].j = Len(task[p].targets)
    /\ LockFree(p)
    /\ LET t     == task[p]
           chunk == t.chunks[t.i + 1]
           done  == [task EXCEPT ![p].phase = "place",
                                 ![p].i = @ + 1,
                                 ![p].hashes = Append(@, chunk.Hash)]
       IN  IF t.accepted > 0
           THEN /\ task' = done
                /\ resp' = NoResp
                /\ UNCHANGED <<index, disk, snapshot, nfaults>>
           ELSE \E r \in StoreChunk(index, disk, snapshot, chunk.Hash, chunk.Data) :
                  /\ nfaults + r.faults <= MaxFaults
                  /\ nfaults' = nfaults + r.faults
                  /\ index' = r.index
                  /\ disk' = r.disk
                  /\ snapshot' = r.snapshot
                  /\ IF r.err # "none"
                     THEN /\ resp' = [NoResp EXCEPT !.kind = "cupload",
                                                    !.status = 500,
                                                    !.fileID = t.fileID,
                                                    !.error = "write_failed",
                                                    !.fault = TRUE]
                          /\ task' = [task EXCEPT ![p] = NoTask]
                     ELSE /\ task' = done
                          /\ resp' = NoResp
    /\ UNCHANGED <<indexLock, pc, call, ret, pre, hist, ncalls>>
    /\ UNCHANGED <<files, uploads, nuploads, ndownloads>>
    /\ UNCHANGED <<chunkVars, extVars, clusterVars>>

\* upload steps 4 to 6: the file record with its chunk links, and the answer
ClusterUploadFinish(p) ==
    /\ task[p].kind = "cupload"
    /\ task[p].phase = "place"
    /\ task[p].i = Len(task[p].chunks)
    /\ LET t == task[p]
       IN  /\ files' = MapPut(files, t.fileID,
                              [FileID      |-> t.fileID,
                               Size        |-> Len(t.bytes),
                               ChunkHashes |-> t.hashes,
                               Encrypted   |-> FALSE,
                               Salt        |-> << >>])
           /\ uploads' = MapPut(uploads, t.fileID,
                                [bytes        |-> t.bytes,
                                 password     |-> "",
                                 chunksStored |-> 0,
                                 repeats      |-> {},
                                 cluster      |-> t.cluster])
           /\ resp' = [NoResp EXCEPT !.kind = "cupload",
                                     !.status = 200,
                                     !.fileID = t.fileID,
                                     !.chunk_hashes = t.hashes]
    /\ task' = [task EXCEPT ![p] = NoTask]
    /\ UNCHANGED <<nuploads, ndownloads, nfaults>>
    /\ UNCHANGED <<chunkVars, extVars, storeVars, clusterVars>>

\* download steps 1 and 2: the file record and its chunk hashes in order
ClusterDownloadBegin(p, fileID) ==
    /\ task[p].kind = "none"
    /\ ndownloads < MaxDownloads
    /\ ndownloads' = ndownloads + 1
    /\ IF fileID \notin DOMAIN files
       THEN /\ resp' = [NoResp EXCEPT !.kind = "cdownload",
                                      !.status = 404,
                                      !.fileID = fileID,
                                      !.error = "notfound"]
            /\ UNCHANGED task
       ELSE /\ task' = [task EXCEPT ![p] =
                          [NoTask EXCEPT !.kind = "cdownload",
                                         !.phase = "locate",
                                         !.fileID = fileID,
                                         !.hashes = files[fileID].ChunkHashes]]
            /\ resp' = NoResp
    /\ UNCHANGED <<files, uploads, nuploads, nfaults>>
    /\ UNCHANGED <<chunkVars, extVars, storeVars, clusterVars>>

\* download step 3a: the ring is asked for the replicas of the next chunk
ClusterDownloadLocate(p) ==
    /\ task[p].kind = "cdownload"
    /\ task[p].phase = "locate"
    /\ task[p].i < Len(task[p].hashes)
    /\ LET r == GetNodes(ring, task[p].hashes[task[p].i + 1], ReplicationFactor)
       IN  /\ ~r.hang
           /\ task' = [task EXCEPT ![p].phase = "ask",
                                   ![p].targets = r.nodes,
                                   ![p].j = 0]
    /\ resp' = NoResp
    /\ UNCHANGED <<files, uploads, nuploads, ndownloads, nfaults>>
    /\ UNCHANGED <<chunkVars, extVars, storeVars, clusterVars>>

\* download steps 3a and 3e: the next replica is asked; the first 200 ends
\* the search and its bytes go to the response
ClusterDownloadAsk(p) ==
    /\ task[p].kind = "cdownload"
    /\ task[p].phase = "ask"
    /\ task[p].j < Len(task[p].targets)
    /\ LET t == task[p]
           n == t.targets[t.j + 1]
       IN  IF ~sn[n].up
           THEN /\ task' = [task EXCEPT ![p].j = @ + 1]
                /\ UNCHANGED nfaults
           ELSE \E r \in retrieveChunkHandler(sn[n], t.hashes[t.i + 1]) :
                  /\ nfaults + r.faults <= MaxFaults
                  /\ nfaults' = nfaults + r.faults
                  /\ IF r.status = 200
                     THEN task' = [task EXCEPT ![p].phase = "locate",
                                               ![p].i = @ + 1,
                                               ![p].out = @ \o r.data]
                     ELSE task' = [task EXCEPT ![p].j = @ + 1,
                                               ![p].fault = @ \/ r.faults > 0]
    /\ resp' = NoResp
    /\ UNCHANGED <<files, uploads, nuploads, ndownloads>>
    /\ UNCHANGED <<chunkVars, extVars, storeVars, clusterVars>>

\* download steps 3b and 3c: no replica returned the chunk; the local dedup
\* index is asked, and chunk_lost answered when it does not have it either
ClusterDownloadFallback(p) ==
    /\ task[p].kind = "cdownload"
    /\ task[p].phase = "ask"
    /\ task[p].j = Len(task[p].targets)
    /\ LockFree(p)
    /\ LET t == task[p]
       IN  \E got \in GetChunk(index, disk, t.hashes[t.i + 1]) :
             /\ nfaults + got.faults <= MaxFaults
             /\ nfaults' = nfaults + got.faults
             /\ IF got.ok
                THEN /\ task' = [task EXCEPT ![p].phase = "locate",
                                             ![p].i = @ + 1,
                                             ![p].out = @ \o got.data]
                     /\ resp' = NoResp
                ELSE /\ resp' = HttpError([t EXCEPT !.kind = "cdownload"], 500,
                                          "chunk_lost", t.fault \/ got.faults > 0)
                     /\ task' = [task EXCEPT ![p] = NoTask]
    /\ UNCHANGED <<files, uploads, nuploads, ndownloads>>
    /\ UNCHANGED <<chunkVars, extVars, storeVars, clusterVars>>

\* every chunk was written to the response
ClusterDownloadFinish(p) ==
    /\ task[p].kind = "cdownload"
    /\ task[p].phase = "locate"
    /\ task[p].i = Len(task[p].hashes)
    /\ resp' = [NoResp EXCEPT !.kind = "cdownload",
                              !.status = 200,
                              !.fileID = task[p].fileID,
                              !.body = task[p].out,
                              !.fault = task[p].fault]
    /\ task' = [task EXCEPT ![p] = NoTask]
    /\ UNCHANGED <<files, uploads, nuploads, ndownloads, nfaults>>
    /\ UNCHANGED <<chunkVars, extVars, storeVars, clusterVars>>

\* ------------------------------------------------------------------------
\* the metadata database (scripts/init.sql and package metadata)
\* ------------------------------------------------------------------------

\* init.sql: the tables as created, file_chunks in the order of insertion,
\* and the sequence behind file_chunks.id SERIAL
NewDatabase == [files |-> << >>, chunks |-> << >>, file_chunks |-> << >>,
                file_chunks_id_seq |-> 0]

\* the file ids, chunk hashes and sizes clients pass to the database
DbFileIDs == {1, 2}
DbHashes == StoreHashes
DbOrders == 0..MaxOrder

NoDbCall == [op |-> "none", hash |-> << >>, size |-> 0, exists |-> FALSE]
NoDbRet == [op |-> "none", fileID |-> 0, hash |-> << >>, order |-> 0,
            err |-> "none", isNew |-> FALSE, hashes |-> << >>,
            orders |-> << >>, before |-> NewDatabase]

\* CreateFile: INSERT INTO files, refused when file_id (PRIMARY KEY) exists
CreateFile(d, fileID, fileSize, encrypted, salt) ==
    IF fileID \in DOMAIN d.files
    THEN [db |-> d, err |-> "files_pkey"]
    ELSE [db |-> [d EXCEPT !.files =
                    MapPut(@, fileID, [file_size |-> fileSize,
                                       encrypted |-> encrypted,
                                       salt      |-> salt])],
          err |-> "none"]

\* CreateChunk, first statement: SELECT EXISTS(... WHERE chunk_hash = $1)
CreateChunkExists(d, chunkHash) == chunkHash \in DOMAIN d.chunks

\* CreateChunk, second statement: UPDATE ... ref_count = ref_count + 1 when
\* the chunk existed (a row that is there is updated), else INSERT with
\* ref_count 1, refused when chunk_hash (PRIMARY KEY) exists by now
CreateChunkWrite(d, chunkHash, chunkSize, storagePath, exists) ==
    IF exists
    THEN [db |-> IF chunkHash \in DOMAIN d.chunks
                 THEN [d EXCEPT !.chunks[chunkHash].ref_count = @ + 1]
                 ELSE d,
          isNew |-> FALSE, err |-> "none"]
    ELSE IF chunkHash \in DOMAIN d.chunks
    THEN [db |-> d, isNew |-> TRUE, err |-> "chunks_pkey"]
    ELSE [db |-> [d EXCEPT !.chunks =
                    MapPut(@, chunkHash, [chunk_size   |-> chunkSize,
                                          ref_count    |-> 1,
                                          storage_path |-> storagePath])],
          isNew |-> TRUE, err |-> "none"]

\* an INSERT INTO file_chunks that checks no constraint
LinkFileChunkUnchecked(d, fileID, chunkHash, chunkOrder) ==
    LET id == d.file_chunks_id_seq + 1
    IN  [db |-> [d EXCEPT !.file_chunks_id_seq = id,
                          !.file_chunks = Append(@, [id          |-> id,
                                                     file_id     |-> fileID,
                                                     chunk_hash  |-> chunkHash,
                                                     chunk_order |-> chunkOrder])],
         err |-> "none"]

\* LinkFileChunk: INSERT INTO file_chunks; the id is drawn from the sequence
\* (and stays drawn when the row is refused), then the row is refused by
\* UNIQUE(file_id, chunk_order), by file_id REFERENCES files or by
\* chunk_hash REFERENCES chunks
LinkFileChunk(d, fileID, chunkHash, chunkOrder) ==
    LET id   == d.file_chunks_id_seq + 1
        seqd == [d EXCEPT !.file_chunks_id_seq = id]
    IN  IF \E i \in DOMAIN d.file_chunks :
               /\ d.file_chunks[i].file_id = fileID
               /\ d.file_chunks[i].chunk_order = chunkOrder
        THEN [db |-> seqd, err |-> "file_chunks_file_id_chunk_order_key"]
        ELSE IF fileID \notin DOMAIN d.files
        THEN [db |-> seqd, err |-> "file_chunks_file_id_fkey"]
        ELSE IF chunkHash \notin DOMAIN d.chunks
        THEN [db |-> seqd, err |-> "file_chunks_chunk_hash_fkey"]
        ELSE [db |-> [seqd EXCEPT !.file_chunks =
                        Append(@, [id          |-> id,
                                   file_id     |-> fileID,
                                   chunk_hash  |-> chunkHash,
                                   chunk_order |-> chunkOrder])],
              err |-> "none"]

\* WHERE file_id = $1: the rows of a file, in the order of the table
RECURSIVE WhereFileID(_, _)
WhereFileID(rows, fileID) ==
    IF rows = << >> THEN << >>
    ELSE IF Head(rows).file_id = fileID
    THEN <<Head(rows)>> \o WhereFileID(Tail(rows), fileID)
    ELSE WhereFileID(Tail(rows), fileID)

\* the row x put in its place in the rows q, sorted by chunk_order
RECURSIVE OrderInsert(_, _)
OrderInsert(q, x) ==
    IF q = << >> THEN <<x>>
    ELSE IF x.chunk_order <= Head(q).chunk_order THEN <<x>> \o q
    ELSE <<Head(q)>> \o OrderInsert(Tail(q), x)

\* ORDER BY chunk_order ASC
RECURSIVE OrderByChunkOrder(_)
OrderByChunkOrder(rows) ==
    IF rows = << >> THEN << >>
    ELSE OrderInsert(OrderByChunkOrder(Tail(rows)), Head(rows))

\* the query of GetFileChunks without ORDER BY: the rows as the table holds
\* them
GetFileChunksUnordered(d, fileID) == WhereFileID(d.file_chunks, fileID)

\* GetFileChunks: SELECT chunk_hash ... WHERE file_id = $1 ORDER BY
\* chunk_order ASC, the rows found (their chunk_hash is what is returned)
GetFileChunks(d, fileID) == OrderByChunkOrder(WhereFileID(d.file_chunks, fileID))

\* a client calls CreateFile
CallCreateFile(fileID, encrypted) ==
    /\ ndbcalls < MaxDbCalls
    /\ ndbcalls' = ndbcalls + 1
    /\ LET r == CreateFile(db, fileID, 0, encrypted, << >>)
       IN  /\ db' = r.db
           /\ dbret' = [NoDbRet EXCEPT !.op = "CreateFile", !.fileID = fileID,
                                       !.err = r.err, !.before = db]
    /\ UNCHANGED dbcall
    /\ UNCHANGED <<chunkVars, storeVars, apiVars, clusterVars, nodeVars, joinVars>>

\* a client calls CreateChunk: the first statement
CallCreateChunk(p, chunkHash) ==
    /\ dbcall[p].op = "none"
    /\ ndbcalls < MaxDbCalls
    /\ ndbcalls' = ndbcalls + 1
    /\ dbcall' = [dbcall EXCEPT ![p] =
                    [op |-> "CreateChunk", hash |-> chunkHash,
                     size |-> Len(chunkHash) - 1,
                     exists |-> CreateChunkExists(db, chunkHash)]]
    /\ dbret' = NoDbRet
    /\ UNCHANGED db
    /\ UNCHANGED <<chunkVars, storeVars, apiVars, clusterVars, nodeVars, joinVars>>

\* CreateChunk: the second statement and the return
ReturnCreateChunk(p) ==
    /\ dbcall[p].op = "CreateChunk"
    /\ LET c == dbcall[p]
           r == CreateChunkWrite(db, c.hash, c.size, ChunkPath(c.hash), c.exists)
       IN  /\ db' = r.db
           /\ dbret' = [NoDbRet EXCEPT !.op = "CreateChunk", !.hash = c.hash,
                                       !.err = r.err, !.isNew = r.isNew,
                                       !.before = db]
    /\ dbcall' = [dbcall EXCEPT ![p] = NoDbCall]
    /\ UNCHANGED ndbcalls
    /\ UNCHANGED <<chunkVars, storeVars, apiVars, clusterVars, nodeVars, joinVars>>

\* a client calls LinkFileChunk
CallLinkFileChunk(fileID, chunkHash, chunkOrder) ==
    /\ ndbcalls < MaxDbCalls
    /\ ndbcalls' = ndbcalls + 1
    /\ LET r == LinkFileChunk(db, fileID, chunkHash, chunkOrder)
       IN  /\ db' = r.db
           /\ dbret' = [NoDbRet EXCEPT !.op = "LinkFileChunk", !.fileID = fileID,
                                       !.hash = chunkHash, !.order = chunkOrder,
                                       !.err = r.err, !.before = db]
    /\ UNCHANGED dbcall
    /\ UNCHANGED <<chunkVars, storeVars, apiVars, clusterVars, nodeVars, joinVars>>

\* a client calls GetFileChunks
CallGetFileChunks(fileID) ==
    /\ ndbcalls < MaxDbCalls
    /\ ndbcalls' = ndbcalls + 1
    /\ LET rows == GetFileChunks(db, fileID)
       IN  dbret' = [NoDbRet EXCEPT
                       !.op = "GetFileChunks", !.fileID = fileID,
                       !.hashes = [i \in DOMAIN rows |-> rows[i].chunk_hash],
                       !.orders = [i \in DOMAIN rows |-> rows[i].chunk_order],
                       !.before = db]
    /\ UNCHANGED <<db, dbcall>>
    /\ UNCHANGED <<chunkVars, storeVars, apiVars, clusterVars, nodeVars, joinVars>>

\* ------------------------------------------------------------------------
\* the storage node process (StorageNode), statement by statement
\* ------------------------------------------------------------------------

\* the chunks the coordinator sends to the node, each under its hash
NodeData == StoreData

NoNodeReq == [op |-> "none", hash |-> << >>, data |-> << >>, pc |-> "idle"]
NoNodeResp == [op |-> "none", hash |-> << >>, status |-> 0, data |-> << >>,
               held |-> FALSE, fault |-> FALSE]

\* len(info.Name()) of a chunk file: hex.EncodeToString of a SHA-256 digest
\* has 64 characters, whatever the bytes
NameLen(name) == Sha256HexLen

\* loadExistingChunks: filepath.Walk admits every file whose name has 64
\* characters
loadExistingChunks(dsk) == {name \in DOMAIN dsk : NameLen(name) = Sha256HexLen}

\* f.Write(b) at offset 0 of a file that holds c
WriteAt0(c, b) == b \o SubSeq(c, Len(b) + 1, Len(c))

\* the node answers a request and its handler returns
NodeRespond(h, status, data, fault) ==
    /\ hresp' = [op |-> hreq[h].op, hash |-> hreq[h].hash, status |-> status,
                 data |-> data, held |-> hreq[h].hash \in stnode.chunks,
                 fault |-> fault]
    /\ hreq' = [hreq EXCEPT ![h] = NoNodeReq]

\* an I/O call of the node fails
NodeFault ==
    /\ nodeCount.faults < MaxFaults
    /\ nodeCount' = [nodeCount EXCEPT !.faults = @ + 1]

\* storeChunkHandler lines 93-100: the request is decoded
NodeStoreBegin(h, d) ==
    /\ stnode.up
    /\ hreq[h].op = "none"
    /\ nodeCount.calls < MaxNodeCalls
    /\ nodeCount' = [nodeCount EXCEPT !.calls = @ + 1]
    /\ hreq' = [hreq EXCEPT ![h] = [op |-> "store", hash |-> Sha256Hex(d),
                                    data |-> d, pc |-> "mkdir"]]
    /\ hresp' = NoNodeResp
    /\ UNCHANGED <<stnode, acked>>
    /\ UNCHANGED <<chunkVars, storeVars, apiVars, clusterVars, dbVars, joinVars>>

\* storeChunkHandler lines 103-107: os.MkdirAll, 500 when it fails
NodeStoreMkdirAll(h) ==
    /\ hreq[h].pc = "mkdir"
    /\ \/ /\ hreq' = [hreq EXCEPT ![h].pc = "open"]
          /\ hresp' = NoNodeResp
          /\ UNCHANGED nodeCount
       \/ /\ NodeFault
          /\ NodeRespond(h, 500, << >>, TRUE)
    /\ UNCHANGED <<stnode, acked>>
    /\ UNCHANGED <<chunkVars, storeVars, apiVars, clusterVars, dbVars, joinVars>>

\* storeChunkHandler line 110, os.WriteFile: the file is opened with
\* O_CREATE|O_TRUNC, which empties it (500 when the open fails)
NodeStoreOpen(h) ==
    /\ hreq[h].pc = "open"
    /\ \/ /\ stnode' = [stnode EXCEPT !.disk = MapPut(@, hreq[h].hash, << >>)]
          /\ hreq' = [hreq EXCEPT ![h].pc = "write"]
          /\ hresp' = NoNodeResp
          /\ UNCHANGED nodeCount
       \/ /\ NodeFault
          /\ NodeRespond(h, 500, << >>, TRUE)
          /\ UNCHANGED stnode
    /\ UNCHANGED acked
    /\ UNCHANGED <<chunkVars, storeVars, apiVars, clusterVars, dbVars, joinVars>>

\* storeChunkHandler lines 110-114, os.WriteFile: the bytes are written and
\* the file closed; a failing write leaves part of them and the answer is 500
NodeStoreWrite(h) ==
    /\ hreq[h].pc = "write"
    /\ LET r == hreq[h]
       IN  \/ /\ stnode' = [stnode EXCEPT !.disk[r.hash] = WriteAt0(@, r.data)]
              /\ hreq' = [hreq EXCEPT ![h].pc = "track"]
              /\ hresp' = NoNodeResp
              /\ UNCHANGED nodeCount
           \/ /\ NodeFault
              /\ \E part \in PartialWrites(r.data) :
                    stnode' = [stnode EXCEPT !.disk[r.hash] = WriteAt0(@, part)]
              /\ NodeRespond(h, 500, << >>, TRUE)
    /\ UNCHANGED acked
    /\ UNCHANGED <<chunkVars, storeVars, apiVars, clusterVars, dbVars, joinVars>>

\* storeChunkHandler lines 117-130: sn.chunks[hash] = true under chunksLock
\* and the response with success
NodeStoreTrack(h) ==
    /\ hreq[h].pc = "track"
    /\ stnode' = [stnode EXCEPT !.chunks = @ \cup {hreq[h].hash}]
    /\ acked' = acked \cup {hreq[h].hash}
    /\ hresp' = [op |-> "store", hash |-> hreq[h].hash, status |-> 200,
                 data |-> << >>, held |-> TRUE, fault |-> FALSE]
    /\ hreq' = [hreq EXCEPT ![h] = NoNodeReq]
    /\ UNCHANGED nodeCount
    /\ UNCHANGED <<chunkVars, storeVars, apiVars, clusterVars, dbVars, joinVars>>

\* retrieveChunkHandler lines 135-146: the lookup in sn.chunks under the
\* read lock, 404 for a hash that is not there
NodeRetrieveBegin(h, hash) ==
    /\ stnode.up
    /\ hreq[h].op = "none"
    /\ nodeCount.calls < MaxNodeCalls
    /\ nodeCount' = [nodeCount EXCEPT !.calls = @ + 1]
    /\ IF hash \in stnode.chunks
       THEN /\ hreq' = [hreq EXCEPT ![h] = [op |-> "retrieve", hash |-> hash,
                                           data |-> << >>, pc |-> "read"]]
            /\ hresp' = NoNodeResp
       ELSE /\ hresp' = [op |-> "retrieve", hash |-> hash, status |-> 404,
                         data |-> << >>, held |-> FALSE, fault |-> FALSE]
            /\ UNCHANGED hreq
    /\ UNCHANGED <<stnode, acked>>
    /\ UNCHANGED <<chunkVars, storeVars, apiVars, clusterVars, dbVars, joinVars>>

\* retrieveChunkHandler lines 149-164: os.ReadFile (500 when it fails) and
\* the response with the bytes read
NodeRetrieveRead(h) ==
    /\ hreq[h].pc = "read"
    /\ IF hreq[h].hash \notin DOMAIN stnode.disk
       THEN /\ NodeRespond(h, 500, << >>, FALSE)
            /\ UNCHANGED nodeCount
       ELSE \/ /\ NodeRespond(h, 200, stnode.disk[hreq[h].hash], FALSE)
               /\ UNCHANGED nodeCount
            \/ /\ NodeFault
               /\ NodeRespond(h, 500, << >>, TRUE)
    /\ UNCHANGED <<stnode, acked>>
    /\ UNCHANGED <<chunkVars, storeVars, apiVars, clusterVars, dbVars, joinVars>>

\* the node process is killed: its goroutines and sn.chunks are gone, the
\* files stay as they are
NodeCrash ==
    /\ stnode.up
    /\ nodeCount.kills < MaxKills
    /\ nodeCount' = [nodeCount EXCEPT !.kills = @ + 1]
    /\ stnode' = [stnode EXCEPT !.up = FALSE, !.chunks = {}]
    /\ hreq' = [h \in Procs |-> NoNodeReq]
    /\ hresp' = NoNodeResp
    /\ UNCHANGED acked
    /\ UNCHANGED <<chunkVars, storeVars, apiVars, clusterVars, dbVars, joinVars>>

\* Start lines 40-70 on the same storage root: NewStorageNode's empty map,
\* loadExistingChunks, then the server listens
NodeBoot ==
    /\ ~stnode.up
    /\ stnode' = [stnode EXCEPT !.up = TRUE,
                                !.chunks = loadExistingChunks(stnode.disk)]
    /\ nodeCount' = [nodeCount EXCEPT !.starts = @ + 1]
    /\ hresp' = [NoNodeResp EXCEPT !.op = "Start"]
    /\ UNCHANGED <<hreq, acked>>
    /\ UNCHANGED <<chunkVars, storeVars, apiVars, clusterVars, dbVars, joinVars>>

\* ------------------------------------------------------------------------
\* storage nodes joining the coordinator (registerWithCoordinator,
\* startHeartbeat; the coordinator's /register and /heartbeat handlers are
\* not part of the sources and follow section 6 of the specification)
\* ------------------------------------------------------------------------

JoinNodes == {1, 2}

NoMember == [up |-> FALSE, register |-> "none", heartbeat |-> "none"]

\* POST /register on the coordinator: the node is entered in the registry
\* and the answer is 200 {status: "registered"}
registerHandler(reg, nodeID, t) ==
    [registry |-> RegisterNode(reg, nodeID, t), status |-> 200]

\* POST /heartbeat on the coordinator: Registry.UpdateHeartbeat, 500 for a
\* node that is not registered
heartbeatHandler(reg, nodeID, totalChunks, t) ==
    LET r == UpdateHeartbeat(reg, nodeID, totalChunks, 0, t)
    IN  [registry |-> r.registry, status |-> IF r.err THEN 500 ELSE 200]

\* Start lines 63-67: the process starts its two goroutines
JoinStart(n) ==
    /\ ~member[n].up
    /\ member' = [member EXCEPT ![n] = [up |-> TRUE, register |-> "posting",
                                        heartbeat |-> "none"]]
    /\ UNCHANGED <<reachable, joinCount>>
    /\ UNCHANGED <<chunkVars, storeVars, apiVars, clusterVars, dbVars, nodeVars>>

\* registerWithCoordinator lines 185-209: one http.Post to /register; when
\* it fails the error is logged and the goroutine returns
registerWithCoordinator(n) ==
    /\ member[n].up
    /\ member[n].register = "posting"
    /\ IF reachable
       THEN /\ registry' = registerHandler(registry, n, now).registry
            /\ member' = [member EXCEPT ![n].register = "registered"]
       ELSE /\ member' = [member EXCEPT ![n].register = "failed"]
            /\ UNCHANGED registry
    /\ regret' = NoRegistryCall
    /\ UNCHANGED <<reachable, joinCount>>
    /\ UNCHANGED <<ring, now, sn, ringVars>>
    /\ UNCHANGED <<chunkVars, storeVars, apiVars, dbVars, nodeVars>>

\* startHeartbeat lines 212-240, one turn of the loop over ticker.C: one
\* http.Post to /heartbeat, whose answer is not looked at
startHeartbeat(n) ==
    /\ member[n].up
    /\ IF reachable
       THEN LET r == heartbeatHandler(registry, n, 0, now)
            IN  /\ registry' = r.registry
                /\ member' = [member EXCEPT ![n].heartbeat =
                                IF r.status = 200 THEN "accepted" ELSE "refused"]
       ELSE /\ member' = [member EXCEPT ![n].heartbeat = "failed"]
            /\ UNCHANGED registry
    /\ regret' = NoRegistryCall
    /\ UNCHANGED <<reachable, joinCount>>
    /\ UNCHANGED <<ring, now, sn, ringVars>>
    /\ UNCHANGED <<chunkVars, storeVars, apiVars, dbVars, nodeVars>>

\* a node process is killed
JoinKill(n) ==
    /\ member[n].up
    /\ joinCount.kills < MaxKills
    /\ joinCount' = [joinCount EXCEPT !.kills = @ + 1]
    /\ member' = [member EXCEPT ![n] = NoMember]
    /\ UNCHANGED reachable
    /\ UNCHANGED <<chunkVars, storeVars, apiVars, clusterVars, dbVars, nodeVars>>

\* the coordinator is not started yet or cannot be reached
CoordinatorDown ==
    /\ reachable
    /\ joinCount.outages < MaxOutages
    /\ joinCount' = [joinCount EXCEPT !.outages = @ + 1]
    /\ reachable' = FALSE
    /\ UNCHANGED member
    /\ UNCHANGED <<chunkVars, storeVars, apiVars, clusterVars, dbVars, nodeVars>>

\* the coordinator can be reached (again)
CoordinatorUp ==
    /\ ~reachable
    /\ reachable' = TRUE
    /\ UNCHANGED <<member, joinCount>>
    /\ UNCHANGED <<chunkVars, storeVars, apiVars, clusterVars, dbVars, nodeVars>>

\* the clock of the coordinator advances
JoinTick ==
    /\ now < MaxTime
    /\ now' = now + 1
    /\ regret' = NoRegistryCall
    /\ UNCHANGED <<ring, registry, sn, ringVars>>
    /\ UNCHANGED <<chunkVars, storeVars, apiVars, extVars>>

\* ------------------------------------------------------------------------
\* Initial states and specifications
\* ------------------------------------------------------------------------

\* no ChunkReader at work
ChunkerIdle ==
    /\ stream = << >>
    /\ readSize = MaxChunkSize
    /\ srcPos = 0
    /\ readers = << >>
    /\ buffer = [j \in 1..MaxChunkSize |-> 0]
    /\ offset = 0
    /\ chunks = << >>
    /\ cdone = TRUE
    /\ shifted = NoShift

\* NewChunkStore on an empty base path, no client in a call
StoreFresh ==
    /\ index = << >>
    /\ disk = << >>
    /\ snapshot = SnapshotOf(<< >>)
    /\ indexLock = 0
    /\ pc = [p \in Procs |-> "idle"]
    /\ call = [p \in Procs |-> NoCall]
    /\ ret = [p \in Procs |-> NoRet]
    /\ pre = [p \in Procs |-> NoPre]
    /\ hist = [h \in StoreHashes |->
                 [ins |-> 0, new |-> 0, rel |-> 0, relCalls |-> 0, conc |-> FALSE]]
    /\ ncalls = 0

\* the coordinator started: an empty ring and registry, no node running
ClusterFresh ==
    /\ ring = NewConsistentHash
    /\ registry = << >>
    /\ now = 0
    /\ sn = [n \in NodeIDs |-> NewStorageNode]
    /\ mu = [writer |-> 0, readers |-> {}]
    /\ rpc = [p \in Procs |-> "idle"]
    /\ rcall = [p \in Procs |-> NoRingCall]
    /\ rret = [p \in Procs |-> NoRingRet]
    /\ rmut = NoMutation
    /\ nrcalls = 0
    /\ regret = NoRegistryCall

\* the database as init.sql leaves it, no client in a call
DbFresh ==
    /\ db = NewDatabase
    /\ dbcall = [p \in Procs |-> NoDbCall]
    /\ dbret = NoDbRet
    /\ ndbcalls = 0

\* the node process started on an empty storage root, no request yet
NodeFresh ==
    /\ stnode = [up |-> TRUE, chunks |-> {}, disk |-> << >>]
    /\ hreq = [h \in Procs |-> NoNodeReq]
    /\ hresp = NoNodeResp
    /\ acked = {}
    /\ nodeCount = [calls |-> 0, faults |-> 0, kills |-> 0, starts |-> 1]

\* the coordinator runs, no node process is started
JoinFresh ==
    /\ reachable = TRUE
    /\ member = [n \in JoinNodes |-> NoMember]
    /\ joinCount = [outages |-> 0, kills |-> 0]

ExtFresh == DbFresh /\ NodeFresh /\ JoinFresh

\* the API server started, no request yet
ApiFresh ==
    /\ task = [p \in Procs |-> NoTask]
    /\ files = << >>
    /\ resp = NoResp
    /\ uploads = << >>
    /\ nuploads = 0
    /\ ndownloads = 0
    /\ nfaults = 0

\* NewChunkReader over a reader that will deliver S
InitChunk ==
    /\ stream \in SeqsUpTo(MaxStreamLen)
    /\ readSize \in {1, MaxChunkSize}
    /\ srcPos = 0
    /\ readers = << >>
    /\ buffer = [j \in 1..MaxChunkSize |-> 0]
    /\ offset = 0
    /\ chunks = << >>
    /\ cdone = FALSE
    /\ shifted = NoShift
    /\ StoreFresh
    /\ ApiFresh
    /\ ClusterFresh
    /\ ExtFresh

NextChunker == NextChunk

SpecChunk == InitChunk /\ [][NextChunker]_vars

InitStore == ChunkerIdle /\ StoreFresh /\ ApiFresh /\ ClusterFresh /\ ExtFresh

NextStore ==
    \E p \in Procs :
        \/ \E d \in StoreData : CallStore(p, d)
        \/ \E h \in StoreHashes : CallRelease(p, h)
        \/ Lock(p)
        \/ StoreLookup(p)
        \/ StoreMkdir(p)
        \/ StoreWrite(p)
        \/ StoreInsert(p)
        \/ ReleaseLookup(p)
        \/ ReleaseRemove(p)
        \/ Unlock(p)

SpecStore == InitStore /\ [][NextStore]_vars

\* the chunk store with clients that also fetch chunks; os.WriteFile is
\* taken in its two steps, which a fetch can fall between
InitFetch == ChunkerIdle /\ StoreFresh /\ ApiFresh /\ ClusterFresh /\ ExtFresh

NextFetch ==
    \E p \in Procs :
        \/ \E d \in StoreData : CallStore(p, d)
        \/ \E h \in StoreHashes : CallRelease(p, h)
        \/ \E h \in StoreHashes : CallGet(p, h)
        \/ Lock(p)
        \/ StoreLookup(p)
        \/ StoreMkdir(p)
        \/ StoreOpen(p)
        \/ StoreFill(p)
        \/ StoreInsert(p)
        \/ ReleaseLookup(p)
        \/ ReleaseRemove(p)
        \/ GetLookup(p)
        \/ GetRead(p)
        \/ Unlock(p)

SpecFetch == InitFetch /\ [][NextFetch]_vars

\* main() of the API server: the chunk store is created, the handlers serve
InitApi == ChunkerIdle /\ StoreFresh /\ ApiFresh /\ ClusterFresh /\ ExtFresh

NextApi ==
    \E p \in Procs :
        \/ \E F \in ApiFiles, password \in UploadPasswords : UploadBegin(p, F, password)
        \/ UploadChunk(p)
        \/ UploadFinish(p)
        \/ \E fileID \in 1..MaxUploads, password \in Passwords :
              DownloadBegin(p, fileID, password)
        \/ DownloadChunk(p)
        \/ DownloadFinish(p)

SpecApi == InitApi /\ [][NextApi]_vars

\* uploads and deletions of files on the API server
InitGc == ChunkerIdle /\ StoreFresh /\ ApiFresh /\ ClusterFresh /\ ExtFresh

NextGc ==
    \E p \in Procs :
        \/ \E F \in ApiFiles, password \in UploadPasswords : UploadBegin(p, F, password)
        \/ UploadChunk(p)
        \/ UploadFinish(p)
        \/ \E fileID \in 1..MaxUploads : DeleteBegin(p, fileID)
        \/ DeleteRelease(p)
        \/ DeleteFinish(p)

SpecGc == InitGc /\ [][NextGc]_vars

\* the coordinator and the storage nodes of a cluster
InitCluster == ChunkerIdle /\ StoreFresh /\ ApiFresh /\ ClusterFresh /\ ExtFresh

NextCluster ==
    \/ \E n \in NodeIDs : NodeStart(n) \/ Kill(n)
    \/ \E p \in Handlers :
          \/ \E F \in ClusterFiles : ClusterUploadBegin(p, F)
          \/ ClusterUploadPlace(p)
          \/ ClusterUploadPost(p)
          \/ ClusterUploadRecord(p)
          \/ ClusterUploadFinish(p)
          \/ \E fileID \in 1..MaxClusterUploads : ClusterDownloadBegin(p, fileID)
          \/ ClusterDownloadLocate(p)
          \/ ClusterDownloadAsk(p)
          \/ ClusterDownloadFallback(p)
          \/ ClusterDownloadFinish(p)

SpecCluster == InitCluster /\ [][NextCluster]_vars

\* the ring of the coordinator and the goroutines calling into it
InitRing == ChunkerIdle /\ StoreFresh /\ ApiFresh /\ ClusterFresh /\ ExtFresh

NextRing ==
    \E p \in Procs :
        \/ \E c \in RingCalls : RingCall(p, c)
        \/ RingLock(p)
        \/ RingRLock(p)
        \/ AddNodeStep(p)
        \/ AddNodeSort(p)
        \/ RemoveNodeStep(p)
        \/ RemoveNodeRebuild(p)
        \/ RingRead(p)
        \/ RingUnlock(p)
        \/ RingRUnlock(p)

SpecRing == InitRing /\ [][NextRing]_vars

\* the registry of the coordinator, its callers and the clock
InitRegistry == ChunkerIdle /\ StoreFresh /\ ApiFresh /\ ClusterFresh /\ ExtFresh

NextRegistry ==
    \/ \E n \in RegistryNodeIDs :
          \/ CallRegisterNode(n)
          \/ \E load \in HeartbeatLoads : CallUpdateHeartbeat(n, load)
          \/ CallGetNode(n)
          \/ CallRemoveNode(n)
    \/ CallGetHealthyNodes
    \/ CallGetAllNodes
    \/ CallGetNodeCount
    \/ Tick

SpecRegistry == InitRegistry /\ [][NextRegistry]_vars

\* the metadata database under concurrent clients
InitDb == ChunkerIdle /\ StoreFresh /\ ApiFresh /\ ClusterFresh /\ ExtFresh

NextDb ==
    \/ \E fileID \in DbFileIDs, encrypted \in BOOLEAN :
          CallCreateFile(fileID, encrypted)
    \/ \E p \in Procs, chunkHash \in DbHashes : CallCreateChunk(p, chunkHash)
    \/ \E p \in Procs : ReturnCreateChunk(p)
    \/ \E fileID \in DbFileIDs, chunkHash \in DbHashes, chunkOrder \in DbOrders :
          CallLinkFileChunk(fileID, chunkHash, chunkOrder)
    \/ \E fileID \in DbFileIDs : CallGetFileChunks(fileID)

SpecDb == InitDb /\ [][NextDb]_vars

\* one storage node serving concurrent requests, killed and started again
InitNode == ChunkerIdle /\ StoreFresh /\ ApiFresh /\ ClusterFresh /\ ExtFresh

NextNode ==
    \/ \E h \in Procs :
          \/ \E d \in NodeData : NodeStoreBegin(h, d)
          \/ NodeStoreMkdirAll(h)
          \/ NodeStoreOpen(h)
          \/ NodeStoreWrite(h)
          \/ NodeStoreTrack(h)
          \/ \E d \in NodeData : NodeRetrieveBegin(h, Sha256Hex(d))
          \/ NodeRetrieveRead(h)
    \/ NodeCrash
    \/ NodeBoot

SpecNode == InitNode /\ [][NextNode]_vars

\* ChunkFile on every stream and on the stream behind one more byte
InitShift ==
    /\ stream \in SeqsUpTo(MaxStreamLen)
    /\ readSize = MaxChunkSize
    /\ srcPos = 0
    /\ readers = << >>
    /\ buffer = [j \in 1..MaxChunkSize |-> 0]
    /\ offset = 0
    /\ chunks = << >>
    /\ cdone = TRUE
    /\ shifted = NoShift
    /\ StoreFresh
    /\ ApiFresh
    /\ ClusterFresh
    /\ ExtFresh

NextShift == \E x \in Bytes : ChunkBoth(x)

SpecShift == InitShift /\ [][NextShift]_vars

\* storage nodes started while the coordinator comes and goes; each
\* goroutine of a running node keeps being scheduled
InitJoin == ChunkerIdle /\ StoreFresh /\ ApiFresh /\ ClusterFresh /\ ExtFresh

NextJoin ==
    \/ \E n \in JoinNodes :
          \/ JoinStart(n)
          \/ registerWithCoordinator(n)
          \/ startHeartbeat(n)
          \/ JoinKill(n)
    \/ CoordinatorDown
    \/ CoordinatorUp
    \/ JoinTick

SpecJoin ==
    /\ InitJoin
    /\ [][NextJoin]_vars
    /\ \A n \in JoinNodes :
          /\ WF_vars(registerWithCoordinator(n))
          /\ WF_vars(startHeartbeat(n))

\* ------------------------------------------------------------------------
\* Chunker claims
\* ------------------------------------------------------------------------
RECURSIVE ConcatData(_)
ConcatData(cs) == IF cs = << >> THEN << >> ELSE Head(cs).Data \o ConcatData(Tail(cs))

\* the bytes NextChunk has not yet emitted: what the stacked bufferReaders
\* still hold, then the rest of the underlying stream
RECURSIVE PendingOf(_)
PendingOf(rds) ==
    IF rds = << >> THEN << >>
    ELSE LET br == Head(rds)
         IN  SubSeq(buffer, br.lo + br.pos + 1, br.hi) \o PendingOf(Tail(rds))

Unread == PendingOf(readers) \o SubSeq(stream, srcPos + 1, Len(stream))

\* C3: the chunks emitted so far, followed by the bytes not yet emitted (the
\* leftover handed back to the reader, then the rest of the stream), are the
\* input stream; when ChunkFile has returned, the chunks' Data concatenated
\* in order is exactly the stream, and each chunk's Offset is where it starts.
C3_ChunkerRoundTrip ==
    /\ ConcatData(chunks) \o Unread = stream
    /\ cdone => ConcatData(chunks) = stream
    /\ \A i \in 1..Len(chunks) :
          chunks[i].Offset = Len(ConcatData(SubSeq(chunks, 1, i - 1)))

\* a full stream chunked to the end in three or more chunks, the first read
\* having gone past the first boundary
C3_Witness ==
    /\ cdone
    /\ Len(stream) = MaxStreamLen
    /\ Len(chunks) >= 3
    /\ chunks[1].Size < MaxChunkSize

\* C4: every emitted chunk has 0 < size <= MAX and holds size bytes; a chunk
\* shorter than MIN is the last one emitted and nothing of the stream is
\* left after it, so every chunk but the final one has MIN <= size <= MAX.
C4_SizeBounds ==
    \A i \in 1..Len(chunks) :
        /\ chunks[i].Size = Len(chunks[i].Data)
        /\ 0 < chunks[i].Size
        /\ chunks[i].Size <= MaxChunkSize
        /\ chunks[i].Size < MinChunkSize => (i = Len(chunks) /\ Unread = << >>)

\* a stream of several chunks whose last chunk is shorter than MIN
C4_Witness ==
    /\ cdone
    /\ Len(chunks) >= 3
    /\ chunks[Len(chunks)].Size < MinChunkSize
    /\ \E i \in 1..Len(chunks) : chunks[i].Size = MaxChunkSize


\* ------------------------------------------------------------------------
\* Chunk store claims
\* ------------------------------------------------------------------------

\* no call on hash h is inside StoreChunk's or ReleaseChunk's locked section
Quiescent(h) == \A p \in Procs : pc[p] \in {"idle", "lock"} \/ call[p].hash # h

RefCountOf(h) == IF h \in DOMAIN index THEN index[h].RefCount ELSE 0

\* C5: of the StoreChunk calls made, possibly at the same time, on a hash
\* that was absent and is never released, at most one returns isNew = true;
\* once they have returned, exactly one did, every other returned
\* isNew = false, and the RefCount is the number of calls that stored.
C5_StoreSerialized ==
    \A h \in StoreHashes :
        hist[h].relCalls = 0 =>
            /\ hist[h].new <= 1
            /\ Quiescent(h) =>
                 IF hist[h].ins = 0
                 THEN h \notin DOMAIN index
                 ELSE /\ hist[h].new = 1
                      /\ h \in DOMAIN index
                      /\ index[h].RefCount = hist[h].ins

\* two StoreChunk calls on the same absent hash, in flight together, have
\* both returned
C5_Witness ==
    \E h \in StoreHashes :
        /\ hist[h].conc
        /\ hist[h].relCalls = 0
        /\ hist[h].ins = 2
        /\ hist[h].new = 1
        /\ \A p \in Procs : pc[p] = "idle"
        /\ index[h].RefCount = 2

\* C6: between calls, the refcount of h is the number of StoreChunk calls
\* that succeeded minus the number of ReleaseChunk calls that succeeded, and
\* once as many releases as inserts have succeeded the chunk file is gone.
C6_RefcountBalance ==
    \A h \in StoreHashes :
        Quiescent(h) =>
            /\ RefCountOf(h) = hist[h].ins - hist[h].rel
            /\ (hist[h].ins > 0 /\ hist[h].ins = hist[h].rel)
                  => ChunkPath(h) \notin DOMAIN disk

\* C7: between calls every entry of the index has RefCount >= 0.
C7_RefCountNonNegative ==
    indexLock = 0 => \A h \in DOMAIN index : index[h].RefCount >= 0

\* C8: between calls no entry of the index has RefCount 0, no snapshot holds
\* such an entry, and every indexed chunk has its bytes on disk.
C8_ZeroIsDeleted ==
    /\ indexLock = 0 =>
         \A h \in DOMAIN index :
             /\ index[h].RefCount # 0
             /\ index[h].StorePath \in DOMAIN disk
             /\ Sha256Hex(disk[index[h].StorePath]) = h
    /\ snapshot.valid =>
         \A h \in DOMAIN snapshot.index : snapshot.index[h].RefCount # 0

\* C9: a StoreChunk call that found its hash in the index is about to return
\* isNew = false with the entry's path, and the index differs from the one it
\* found only by that entry's RefCount, which is one higher; the chunk files
\* are as they were.
C9_StoreExistingFrame ==
    \A p \in Procs :
        (/\ pc[p] = "unlock"
         /\ call[p].op = "store"
         /\ call[p].hash \in DOMAIN pre[p].index)
        => /\ ret[p].err = "none"
           /\ ~ret[p].isNew
           /\ ret[p].path = pre[p].index[call[p].hash].StorePath
           /\ index = [pre[p].index EXCEPT ![call[p].hash].RefCount = @ + 1]
           /\ disk = pre[p].disk

\* a StoreChunk of a known hash returning while another chunk is indexed too
C9_Witness ==
    \E p \in Procs :
        /\ pc[p] = "unlock"
        /\ call[p].op = "store"
        /\ call[p].hash \in DOMAIN pre[p].index
        /\ Cardinality(DOMAIN index) = 2
        /\ index[call[p].hash].RefCount = 2

\* a StoreChunk call is about to return
StoreReturning(p) == pc[p] = "unlock" /\ call[p].op = "store"

\* C12: a StoreChunk whose MkdirAll or WriteFile failed returns the error
\* with no path and isNew = false, and the index is the one the call found
\* when it took the lock; and a StoreChunk of an unknown hash that did not
\* leave the whole chunk in its file returns such an error
C12_WriteFailureFrame ==
    \A p \in Procs :
        StoreReturning(p) =>
            /\ ret[p].err \in {"mkdir", "write"}
                  => /\ index = pre[p].index
                     /\ ~ret[p].isNew
                     /\ ret[p].path = << >>
            /\ (/\ call[p].hash \notin DOMAIN pre[p].index
                /\ \/ ChunkPath(call[p].hash) \notin DOMAIN disk
                   \/ disk[ChunkPath(call[p].hash)] # call[p].data)
                  => ret[p].err \in {"mkdir", "write"}

\* a StoreChunk returns the write error, a part of the chunk in its file,
\* while the index holds another chunk
C12_Witness ==
    \E p \in Procs :
        /\ StoreReturning(p)
        /\ ret[p].err = "write"
        /\ disk # pre[p].disk
        /\ pre[p].index # << >>
        /\ index = pre[p].index

\* C13: a StoreChunk or ReleaseChunk call that changed the index and whose
\* saveIndex did not fail is about to return with the index file holding
\* the index, so that loadIndex on it gives the index back
C13_SnapshotFollowsIndex ==
    \A p \in Procs :
        (/\ pc[p] = "unlock"
         /\ call[p].op \in {"store", "release"}
         /\ index # pre[p].index
         /\ ret[p].saved # "failed")
        => LoadIndex(snapshot) = [err |-> FALSE, index |-> index]

\* ------------------------------------------------------------------------
\* Upload and download (SpecApi)
\* ------------------------------------------------------------------------

\* the download answered by the last step asked for an uploaded file with
\* the password of its upload (any password when it was uploaded without)
RightfulDownload ==
    /\ resp.kind = "download"
    /\ resp.fileID \in DOMAIN uploads
    /\ \/ uploads[resp.fileID].password = ""
       \/ uploads[resp.fileID].password = resp.password

\* C1: a download of an uploaded file, with the password of the upload when
\* one was given, returns 200 and exactly the bytes of the file, in order,
\* whatever other uploads ran before or in between; the one exception is a
\* download during which os.ReadFile itself failed, which is answered with
\* the "retrieve" error
C1_UploadDownloadRoundTrip ==
    RightfulDownload =>
        \/ /\ resp.status = 200
           /\ resp.error = ""
           /\ resp.body = uploads[resp.fileID].bytes
        \/ /\ resp.error = "retrieve"
           /\ resp.fault

\* an encrypted file of two chunks, one of them stored under the same hash
\* as a chunk of another uploaded file, comes back whole
C1_Witness ==
    /\ RightfulDownload
    /\ resp.status = 200
    /\ resp.error = ""
    /\ uploads[resp.fileID].password # ""
    /\ Len(files[resp.fileID].ChunkHashes) = 2
    /\ resp.body = uploads[resp.fileID].bytes
    /\ \E g \in DOMAIN files \ {resp.fileID} :
          \E i \in DOMAIN files[g].ChunkHashes, j \in DOMAIN files[resp.fileID].ChunkHashes :
              files[g].ChunkHashes[i] = files[resp.fileID].ChunkHashes[j]

\* the sum over the chunks of the index of Size x (RefCount - 1)
RECURSIVE SavedByRefs(_, _)
SavedByRefs(idx, keys) ==
    IF keys = {} THEN 0
    ELSE LET k == CHOOSE x \in keys : TRUE
         IN  idx[k].Size * (idx[k].RefCount - 1) + SavedByRefs(idx, keys \ {k})

\* C10: when an unencrypted file was uploaded and then uploaded again, and
\* nothing else was uploaded, the second upload stored 0 new chunks and the
\* statistics report space_saved = size of the file = the sum over the
\* chunks of Size x (RefCount - 1)
C10_DedupEffectiveness ==
    \A f \in DOMAIN uploads : \A g \in uploads[f].repeats :
        (/\ nuploads = 2
         /\ DOMAIN uploads = {f, g}
         /\ \A p \in Procs : task[p].kind = "none")
        => /\ uploads[f].chunksStored = 0
           /\ Cardinality(DOMAIN index) = Len(files[g].ChunkHashes)
           /\ GetStats(index).space_saved = Len(uploads[f].bytes)
           /\ GetStats(index).space_saved = SavedByRefs(index, DOMAIN index)

\* the upload answered by the last step repeated the bytes of a file, not
\* empty, that an earlier, answered upload had stored, both without password
RepeatedUploadAnswered ==
    /\ resp.kind = "upload"
    /\ resp.status = 200
    /\ resp.fileID \in DOMAIN uploads
    /\ uploads[resp.fileID].repeats # {}
    /\ uploads[resp.fileID].bytes # << >>

\* C11: the response to an upload of bytes that were already uploaded
\* reports chunks_stored = 0 and a dedup_ratio of at least 2.0, whatever the
\* number of chunks of the file (dedup_ratio is the pair numerator,
\* denominator)
C11_RepeatUploadResponse ==
    RepeatedUploadAnswered =>
        /\ resp.chunks_stored = 0
        /\ resp.dedup_ratio[1] >= 2 * resp.dedup_ratio[2]

\* the download answered by the last step asked for a file uploaded with a
\* password and gave no password
DownloadWithoutPassword ==
    /\ resp.kind = "download"
    /\ resp.fileID \in DOMAIN uploads
    /\ uploads[resp.fileID].password # ""
    /\ resp.password = ""

\* C21: a download of an encrypted file without password is answered 401
\* "Password required" with no byte of the file in the response, and no
\* handler is ever in the chunk loop (where chunks are fetched and written)
\* for such a request
C21_AuthRequiredFirst ==
    /\ DownloadWithoutPassword =>
          /\ resp.status = 401
          /\ resp.error = "auth_required"
          /\ resp.body = << >>
    /\ \A p \in Procs :
          (task[p].kind = "download" /\ files[task[p].fileID].Encrypted)
              => task[p].password # ""

\* an encrypted file whose chunks are in the store is asked for without
\* password and refused
C21_Witness ==
    /\ DownloadWithoutPassword
    /\ resp.status = 401
    /\ files[resp.fileID].ChunkHashes # << >>
    /\ \A i \in DOMAIN files[resp.fileID].ChunkHashes :
          files[resp.fileID].ChunkHashes[i] \in DOMAIN index

\* the download answered by the last step asked for a file uploaded with a
\* password and gave another password
DownloadWithWrongPassword ==
    /\ resp.kind = "download"
    /\ resp.fileID \in DOMAIN uploads
    /\ uploads[resp.fileID].password # ""
    /\ resp.password # ""
    /\ resp.password # uploads[resp.fileID].password

\* C22: a download of an encrypted file with a password other than the one of
\* its upload is answered 401 "Decryption failed" and never 200 (a download
\* during which os.ReadFile itself failed is answered with the "retrieve"
\* error instead)
C22_WrongPasswordRejected ==
    DownloadWithWrongPassword =>
        \/ /\ resp.status = 401
           /\ resp.error = "decrypt"
        \/ /\ resp.status = 500
           /\ resp.error = "retrieve"
           /\ resp.fault

\* the size of the bytes stored for a chunk: the chunk, with the nonce and
\* the tag around it when it is sealed
StoredSize(chunk, encrypted) ==
    Len(chunk.Data) + (IF encrypted THEN NonceSize + TagSize ELSE 0)

\* the hashes hs are those of the first Len(hs) chunks of cs, in the order
\* of cs, and each is in the index with the bytes of its chunk
StoredInOrder(hs, cs, encrypted) ==
    /\ Len(hs) <= Len(cs)
    /\ \A k \in DOMAIN hs :
          /\ hs[k] \in DOMAIN index
          /\ index[hs[k]].Size = StoredSize(cs[k], encrypted)
          /\ ~encrypted => hs[k] = cs[k].Hash

\* C23: an upload in progress has stored exactly the first i chunks of its
\* file, in chunk order, and has no file record yet; a file record lists
\* every chunk of its file, in order, all of them stored; an upload that
\* failed at a chunk is answered 500 and has no file record
C23_RecordAfterAllChunks ==
    /\ \A p \in Procs :
          task[p].kind = "upload" =>
              /\ task[p].fileID \notin DOMAIN files
              /\ task[p].i = Len(task[p].hashes)
              /\ StoredInOrder(task[p].hashes, task[p].chunks, task[p].password # "")
    /\ \A f \in DOMAIN files :
          /\ f \in DOMAIN uploads
          /\ Len(files[f].ChunkHashes) = Len(ChunkFile(uploads[f].bytes))
          /\ StoredInOrder(files[f].ChunkHashes, ChunkFile(uploads[f].bytes),
                           uploads[f].password # "")
    /\ (resp.kind = "upload" /\ resp.error = "store") =>
          /\ resp.status = 500
          /\ resp.fileID \notin DOMAIN files

\* the only upload so far failed at its second chunk: its first chunk is in
\* the store and there is no file record
C23_Witness ==
    /\ resp.kind = "upload"
    /\ resp.status = 500
    /\ resp.error = "store"
    /\ nuploads = 1
    /\ DOMAIN index # {}
    /\ resp.fileID \notin DOMAIN files

\* ------------------------------------------------------------------------
\* Replicated upload and download (SpecCluster)
\* ------------------------------------------------------------------------

\* the distinct chunk hashes of an uploaded file
HashesOf(fileID) ==
    {files[fileID].ChunkHashes[k] : k \in DOMAIN files[fileID].ChunkHashes}

\* the replica nodes of a chunk that are running and hold it
LiveReplicas(hash) ==
    LET r == GetNodes(ring, hash, ReplicationFactor).nodes
    IN  {r[k] : k \in DOMAIN r} \cap {n \in NodeIDs : sn[n].up /\ hash \in sn[n].chunks}

\* the download answered by the last step asked for a file that was uploaded
\* to a cluster of R registered, running nodes, and no os.ReadFile failed
\* while it was served
ClusterDownloadAnswered ==
    /\ resp.kind = "cdownload"
    /\ resp.fileID \in DOMAIN uploads
    /\ Cardinality(uploads[resp.fileID].cluster) = ReplicationFactor
    /\ ~resp.fault

\* C2: a download of a file uploaded to a cluster of R = 3 nodes returns
\* exactly the bytes of the file as long as every chunk of it has a running replica node
\* that holds it, and ends in chunk_lost only when some chunk is held by no
\* running replica and not by the local dedup index
C2_ReplicaFailureTolerance ==
    ClusterDownloadAnswered =>
        /\ (\A h \in HashesOf(resp.fileID) : LiveReplicas(h) # {})
              => /\ resp.status = 200
                 /\ resp.error = ""
                 /\ resp.body = uploads[resp.fileID].bytes
        /\ resp.error = "chunk_lost"
              => \E h \in HashesOf(resp.fileID) :
                    LiveReplicas(h) = {} /\ h \notin DOMAIN index

\* ------------------------------------------------------------------------
\* Ring claims (SpecRing)
\* ------------------------------------------------------------------------

\* the ring built from nothing by one AddNode per member, in the order of
\* the node IDs
RECURSIVE RingOf(_)
RingOf(members) ==
    IF members = {} THEN NewConsistentHash
    ELSE LET last == CHOOSE n \in members : \A m \in members : m <= n
         IN  AddNode(RingOf(members \ {last}), last)

\* the elements of a sequence are pairwise distinct
Distinct(q) == \A i, j \in DOMAIN q : i # j => q[i] # q[j]

\* C14: between mutations, GetNode(h) and GetNodes(h, R) are what they are
\* on the ring built from the member set alone, whatever calls produced the
\* ring, and GetNodes(h, R) returns min(R, number of members) distinct nodes
C14_RingDeterminism ==
    mu.writer = 0 =>
        \A k \in RingKeys :
            /\ GetNode(ring, k).nodes = GetNode(RingOf(ring.nodes), k).nodes
            /\ \A c \in 1..ReplicationFactor :
                  LET r == GetNodes(ring, k, c)
                  IN  /\ r.nodes = GetNodes(RingOf(ring.nodes), k, c).nodes
                      /\ Len(r.nodes) = MinOf(c, Cardinality(ring.nodes))
                      /\ Distinct(r.nodes)

\* AddNode, or RemoveNode of a node that was a member, is about to return
MutationDone(p, op) ==
    /\ rpc[p] = "unlock"
    /\ rcall[p].op = op
    /\ op = "remove" => rcall[p].node \in rmut.pre.nodes

\* C15: when AddNode(x) returns, GetNode(h) is for every h what it was
\* before the call or x; when RemoveNode(x) returns, GetNode(h) is what it
\* was before the call for every h whose node was not x
C15_MinimalRebalancing ==
    \A p \in Procs : \A k \in RingKeys :
        /\ MutationDone(p, "add")
              => \/ GetNode(ring, k) = GetNode(rmut.pre, k)
                 \/ GetNode(ring, k).nodes = <<rcall[p].node>>
        /\ (MutationDone(p, "remove") /\ GetNode(rmut.pre, k).nodes # <<rcall[p].node>>)
              => GetNode(ring, k) = GetNode(rmut.pre, k)

\* C16: a GetNode or GetNodes call returns what it would return on the ring
\* as the last completed mutation left it or on the ring as the mutation in
\* progress leaves it, and a mutation that returns has left the ring that
\* AddNode or RemoveNode as a whole makes of the ring it found
C16_LookupAtomic ==
    \A p \in Procs :
        /\ rpc[p] \in {"runlock", "hung"}
              => rret[p].out \in {rret[p].pre, rret[p].post}
        /\ rpc[p] = "unlock" => ring = rmut.post

\* a GetNodes call has returned two nodes while another goroutine waits for
\* the lock to add a node, and a call waits while a RemoveNode is under way
C16_Witness ==
    \E p, q \in Procs :
        /\ rpc[p] = "runlock"
        /\ rcall[p].op = "getnodes"
        /\ Len(rret[p].out.nodes) = 2
        /\ rpc[q] = "lock"
        /\ rcall[q].op = "add"
        /\ rcall[q].node \notin ring.nodes

\* C17: between mutations, the walk of GetNodes(h, R) ends for every h and
\* R after it examined at most 2 x len(sortedHashes) positions
C17_WalkTerminates ==
    mu.writer = 0 =>
        \A k \in RingKeys : \A c \in 1..ReplicationFactor :
            LET r == GetNodes(ring, k, c)
            IN  /\ ~r.hang
                /\ ~r.panic
                /\ r.steps <= 2 * Len(ring.sortedHashes)

\* C18: when RemoveNode(n) returns, no ring entry and no lookup names n, and
\* every ring entry that named another node before the call is in the ring
\* as it was
C18_RemoveOnlyOwn ==
    \A p \in Procs :
        MutationDone(p, "remove") =>
            LET n == rcall[p].node
            IN  /\ \A pos \in DOMAIN ring.circle : ring.circle[pos] # n
                /\ \A k \in RingKeys : GetNode(ring, k).nodes # <<n>>
                /\ \A pos \in DOMAIN rmut.pre.circle :
                      rmut.pre.circle[pos] # n
                        => /\ pos \in DOMAIN ring.circle
                           /\ ring.circle[pos] = rmut.pre.circle[pos]

\* ------------------------------------------------------------------------
\* Registry claims (SpecRegistry)
\* ------------------------------------------------------------------------

\* C19: GetHealthyNodes returns exactly the nodes whose last heartbeat is
\* younger than the timeout, and every NodeInfo that GetNode or GetAllNodes
\* returns has the status "healthy" if its last heartbeat is younger than
\* the timeout now, and "offline" otherwise
C19_StatusOnEachCall ==
    /\ regret.op = "healthy"
          => {i.NodeID : i \in regret.nodes}
               = {n \in DOMAIN regret.before :
                    now - regret.before[n].LastSeen < HeartbeatTimeout}
    /\ regret.op \in {"getnode", "getall"}
          => \A i \in regret.nodes :
                i.Status = IF now - i.LastSeen < HeartbeatTimeout
                           THEN "healthy" ELSE "offline"

\* C20: a heartbeat for a node that is not in the registry returns an error
\* and leaves the registry as it was
C20_UnknownHeartbeat ==
    (regret.op = "heartbeat" /\ regret.node \notin DOMAIN regret.before)
        => /\ regret.err
           /\ registry = regret.before

\* a heartbeat for an unknown node was refused while the registry holds
\* another node, which an earlier GetHealthyNodes found offline
C20_Witness ==
    /\ regret.op = "heartbeat"
    /\ regret.node \notin DOMAIN regret.before
    /\ regret.err
    /\ \E n \in DOMAIN registry : registry[n].Status = "offline"

\* ------------------------------------------------------------------------
\* Metadata database (SpecDb)
\* ------------------------------------------------------------------------

\* the tables of the database, without the sequence
TablesOf(d) == <<d.files, d.chunks, d.file_chunks>>

\* C24: LinkFileChunk for a file_id that has no file record returns an error
\* and adds no link, and every link in the database refers to a file record
\* and to a chunk record that exist
C24_LinkAfterFile ==
    /\ (dbret.op = "LinkFileChunk" /\ dbret.fileID \notin DOMAIN dbret.before.files)
          => /\ dbret.err # "none"
             /\ TablesOf(db) = TablesOf(dbret.before)
    /\ \A i \in DOMAIN db.file_chunks :
          /\ db.file_chunks[i].file_id \in DOMAIN db.files
          /\ db.file_chunks[i].chunk_hash \in DOMAIN db.chunks

\* a link to a chunk that exists, for a file that does not, was refused,
\* while the table holds a link of another file
C24_Witness ==
    /\ dbret.op = "LinkFileChunk"
    /\ dbret.fileID \notin DOMAIN db.files
    /\ dbret.hash \in DOMAIN db.chunks
    /\ dbret.err = "file_chunks_file_id_fkey"
    /\ db.file_chunks # << >>

\* the rows of file_chunks of a file
LinksOf(d, fileID) ==
    {d.file_chunks[i] : i \in {j \in DOMAIN d.file_chunks :
                                 d.file_chunks[j].file_id = fileID}}

\* C25: no two links have the same (file_id, chunk_order); a link with the
\* (file_id, chunk_order) of an existing link is refused and changes no
\* table; GetFileChunks returns the chunk hashes of all links of the file,
\* in strictly ascending chunk_order
C25_LinksOrdered ==
    /\ \A i, j \in DOMAIN db.file_chunks :
          (/\ db.file_chunks[i].file_id = db.file_chunks[j].file_id
           /\ db.file_chunks[i].chunk_order = db.file_chunks[j].chunk_order)
              => i = j
    /\ (/\ dbret.op = "LinkFileChunk"
        /\ \E r \in LinksOf(dbret.before, dbret.fileID) : r.chunk_order = dbret.order)
          => /\ dbret.err # "none"
             /\ TablesOf(db) = TablesOf(dbret.before)
    /\ dbret.op = "GetFileChunks" =>
          /\ \A i, j \in DOMAIN dbret.orders : i < j => dbret.orders[i] < dbret.orders[j]
          /\ {<<dbret.orders[i], dbret.hashes[i]>> : i \in DOMAIN dbret.hashes}
               = {<<r.chunk_order, r.chunk_hash>> : r \in LinksOf(db, dbret.fileID)}

\* GetFileChunks returned the two different chunks of a file whose links
\* were inserted in descending chunk_order
C25_Witness ==
    /\ dbret.op = "GetFileChunks"
    /\ Len(dbret.hashes) = 2
    /\ dbret.hashes[1] # dbret.hashes[2]
    /\ \E i, j \in DOMAIN db.file_chunks :
          /\ i < j
          /\ db.file_chunks[i].file_id = dbret.fileID
          /\ db.file_chunks[j].file_id = dbret.fileID
          /\ db.file_chunks[i].chunk_order > db.file_chunks[j].chunk_order

\* ------------------------------------------------------------------------
\* Storage node (SpecNode)
\* ------------------------------------------------------------------------

\* the bytes the coordinator sent under a hash
ChunkOf(hash) == CHOOSE d \in NodeData : Sha256Hex(d) = hash

\* the file of a hash holds the bytes of its chunk
OnDisk(hash) ==
    /\ hash \in DOMAIN stnode.disk
    /\ stnode.disk[hash] = ChunkOf(hash)

\* C26: every hash in the held set has its bytes on disk, after one store
\* as after several; /retrieve answers 200 with these bytes for a hash in
\* the held set (500 when os.ReadFile itself failed) and 404 for any other
C26_NodeStoreRetrieve ==
    /\ \A hash \in stnode.chunks : OnDisk(hash)
    /\ (hresp.op = "store" /\ hresp.status = 200) =>
          /\ hresp.hash \in stnode.chunks
          /\ OnDisk(hresp.hash)
    /\ hresp.op = "retrieve" =>
          IF hresp.held
          THEN \/ hresp.status = 200 /\ hresp.data = ChunkOf(hresp.hash)
               \/ hresp.status = 500 /\ hresp.fault
          ELSE hresp.status = 404

\* C27: when the node has started again on its storage root, its held set
\* is the set of hashes it acknowledged storing, each with its bytes on disk
C27_RestartKeepsChunks ==
    (hresp.op = "Start" /\ nodeCount.starts > 1) =>
        /\ stnode.chunks = acked
        /\ \A hash \in acked : OnDisk(hash)

\* ------------------------------------------------------------------------
\* Shift tolerance of the chunker (SpecShift)
\* ------------------------------------------------------------------------

\* the positions at which a chunking cuts, as offsets into the bytes chunked
\* (the end of the last chunk is the end of the bytes, not a cut)
Boundaries(cs) == {cs[k].Offset + cs[k].Size : k \in 1..(Len(cs) - 1)}

\* the cuts of the chunking of the stream, and the cuts of the chunking of
\* x followed by the stream as positions in the stream
PlainCuts == Boundaries(shifted.plain)
MovedCuts == {b - 1 : b \in Boundaries(shifted.moved)} \ {0}

\* C28: the chunking of a stream and the chunking of the stream behind one
\* more byte cut the stream at the same positions but for at most two cuts
\* of either
C28_ShiftTolerance ==
    shifted.done =>
        /\ Cardinality(PlainCuts \ MovedCuts) <= 2
        /\ Cardinality(MovedCuts \ PlainCuts) <= 2

\* ------------------------------------------------------------------------
\* Joining the cluster (SpecJoin)
\* ------------------------------------------------------------------------

\* C29: a node that keeps running while the coordinator stays reachable is
\* eventually in the coordinator's registry for good, with its heartbeats
\* accepted
C29_EventuallyRegistered ==
    \A n \in JoinNodes :
        <>[](reachable /\ member[n].up)
            => <>[](n \in DOMAIN registry /\ member[n].heartbeat = "accepted")

\* ------------------------------------------------------------------------
\* Reference counts across files (SpecGc)
\* ------------------------------------------------------------------------

\* the (file, position) pairs of the file records that refer to a hash
RefsTo(hash) ==
    {fi \in UNION {{f} \X DOMAIN files[f].ChunkHashes : f \in DOMAIN files} :
        files[fi[1]].ChunkHashes[fi[2]] = hash}

\* no upload and no deletion is in progress
NoTaskInProgress == \A p \in Procs : task[p].kind = "none"

\* C30: whenever no upload (and no deletion) is in progress, the RefCount of
\* every chunk of the index is the number of (file, position) references to
\* its hash in the file records, and every hash of a file record is in the
\* index; when a file has been deleted, each of its chunks that no other
\* file refers to is gone from the index and from the disk
C30_RefCountsTrackFiles ==
    NoTaskInProgress =>
        /\ \A h \in DOMAIN index : index[h].RefCount = Cardinality(RefsTo(h))
        /\ \A f \in DOMAIN files : \A i \in DOMAIN files[f].ChunkHashes :
              files[f].ChunkHashes[i] \in DOMAIN index
        /\ resp.kind = "delete" =>
              \A i \in DOMAIN resp.chunk_hashes :
                  RefsTo(resp.chunk_hashes[i]) = {} =>
                      /\ resp.chunk_hashes[i] \notin DOMAIN index
                      /\ ChunkPath(resp.chunk_hashes[i]) \notin DOMAIN disk

\* ------------------------------------------------------------------------
\* The boundary rule of the chunker (SpecChunk)
\* ------------------------------------------------------------------------

\* the rolling hash after position i of a buffer: started at 0 at position
\* MinChunkSize, doubled and increased by the byte at every position, kept
\* modulo m (m = 0: not reduced at all)
RECURSIVE RollAt(_, _, _)
RollAt(data, i, m) ==
    IF i < MinChunkSize
    THEN 0
    ELSE LET h == 2 * RollAt(data, i - 1, m) + data[i + 1]
         IN  IF m = 0 THEN h ELSE h % m

\* the positions of a buffer at which the rolling hash has its mask bits zero
CutsAt(data, m) ==
    {i \in MinChunkSize..(MinOf(Len(data), MaxChunkSize) - 1) :
        RollAt(data, i, m) % Pow2(MaskBits) = 0}

\* the first of them, or the end of the buffer (at most MaxChunkSize)
FirstCut(data, m) ==
    IF CutsAt(data, m) = {}
    THEN MinOf(Len(data), MaxChunkSize)
    ELSE CHOOSE i \in CutsAt(data, m) : \A j \in CutsAt(data, m) : i <= j

\* the bytes NextChunk had in its buffer when it cut the k-th chunk
BufferOf(k) ==
    SubSeq(stream, chunks[k].Offset + 1,
           chunks[k].Offset + MinOf(MaxChunkSize, Len(stream) - chunks[k].Offset))

\* C31: for a buffer of at least MinChunkSize bytes the chunk size is the
\* smallest position i, MinChunkSize <= i < min(n, MaxChunkSize), at which
\* the rolling hash (0 at MinChunkSize, h <- 2h + byte, kept in the width of
\* the register) has all mask bits zero, and min(n, MaxChunkSize) when there
\* is none; no chunk is cut before MinChunkSize, and the same size results
\* from the hash that is never reduced to the register's width
C31_BoundaryRule ==
    \A k \in DOMAIN chunks :
        Len(BufferOf(k)) >= MinChunkSize =>
            /\ chunks[k].Size = FirstCut(BufferOf(k), Pow2(HashBits))
            /\ chunks[k].Size >= MinChunkSize
            /\ FirstCut(BufferOf(k), Pow2(HashBits)) = FirstCut(BufferOf(k), 0)

\* a chunk was cut by the hash, short of the end of its buffer, after the
\* hash had grown past the width of the register
C31_Witness ==
    \E k \in DOMAIN chunks :
        /\ Len(BufferOf(k)) = MaxChunkSize
        /\ chunks[k].Size > MinChunkSize
        /\ chunks[k].Size < MaxChunkSize
        /\ RollAt(BufferOf(k), chunks[k].Size, 0) >= Pow2(HashBits)

\* ------------------------------------------------------------------------
\* What the lookups return (SpecRing)
\* ------------------------------------------------------------------------

\* the ring position that serves a hash: the smallest position at or after
\* it, or the lowest position of the ring when there is none
PrimaryPos(ch, h) ==
    LET ps == DOMAIN ch.circle
        ge == {q \in ps : q >= h}
        of == IF ge # {} THEN ge ELSE ps
    IN  CHOOSE q \in of : \A x \in of : q <= x

\* the owners met on the way clockwise round the ring from a position, each
\* named where it is met first; todo holds the positions not visited yet
RECURSIVE OwnersFrom(_, _, _, _)
OwnersFrom(ch, from, todo, acc) ==
    IF todo = {} THEN acc
    ELSE LET dist(q) == (q + RingSize - from) % RingSize
             nxt == CHOOSE q \in todo : \A x \in todo : dist(q) <= dist(x)
             own == ch.circle[nxt]
         IN  OwnersFrom(ch, from, todo \ {nxt},
                        IF \E i \in DOMAIN acc : acc[i] = own
                        THEN acc ELSE Append(acc, own))

\* C32: between mutations, on a ring with members GetNode(h) returns the
\* owner of the smallest ring position at or after hashKey(h), wrapping to
\* the lowest position, and GetNodes(h, R) returns min(R, members) distinct
\* nodes, that node first and the others in the order the ring names them
\* clockwise from there; on a ring without members both return the error
C32_LookupContract ==
    mu.writer = 0 =>
        \A k \in RingKeys : \A c \in 1..ReplicationFactor :
            LET one  == GetNode(ring, k)
                many == GetNodes(ring, k, c)
            IN  IF ring.nodes = {}
                THEN one.err /\ many.err
                ELSE /\ ~one.err
                     /\ DOMAIN ring.circle # {}
                     /\ one.nodes = <<ring.circle[PrimaryPos(ring, hashKey(k))]>>
                     /\ ~many.err /\ ~many.hang /\ ~many.panic
                     /\ many.nodes =
                          SubSeq(OwnersFrom(ring, PrimaryPos(ring, hashKey(k)),
                                            DOMAIN ring.circle, << >>),
                                 1, MinOf(c, Cardinality(ring.nodes)))

\* ------------------------------------------------------------------------
\* Who writes the registry (SpecRegistry)
\* ------------------------------------------------------------------------

\* C37: a call that holds r.nodeLock for reading (GetHealthyNodes, GetNode,
\* GetAllNodes, GetNodeCount) leaves every NodeInfo of the registry as it
\* was; the registry changes only in calls that hold the lock for writing
C37_ReadersDoNotWrite ==
    /\ regret.op \in {"healthy", "getnode", "getall", "count"}
          => regret.lock = "RLock"
    /\ regret.lock = "RLock" => registry = regret.before

\* ------------------------------------------------------------------------
\* The keys of the dedup index (SpecApi)
\* ------------------------------------------------------------------------

\* the bytes stored for a chunk of the index
StoredBytes(h) == disk[index[h].StorePath]

\* the key an encrypted file was sealed with
KeyOfFile(f) == DeriveKey(uploads[f].password, HexDecode(files[f].Salt))

\* C33: every chunk of the index is keyed by the hash of exactly the bytes
\* stored for it; the hashes of a file record are such keys, in the order of
\* the chunks of the file: the i-th is the hash of the i-th chunk when the
\* file is not encrypted, and the hash of the sealed bytes of the i-th chunk
\* (not the hash of the chunk itself) when it is
C33_KeyedByStoredBytes ==
    /\ \A h \in DOMAIN index :
          /\ index[h].StorePath \in DOMAIN disk
          /\ Sha256Hex(StoredBytes(h)) = h
          /\ index[h].Hash = h
    /\ \A f \in DOMAIN files :
          LET cs == ChunkFile(uploads[f].bytes)
              hs == files[f].ChunkHashes
          IN  /\ Len(hs) = Len(cs)
              /\ \A i \in DOMAIN hs :
                    /\ hs[i] \in DOMAIN index
                    /\ IF files[f].Encrypted
                       THEN /\ hs[i] # cs[i].Hash
                            /\ DecryptChunk(StoredBytes(hs[i]), KeyOfFile(f))
                                  = [ok |-> TRUE, data |-> cs[i].Data]
                       ELSE /\ hs[i] = cs[i].Hash
                            /\ StoredBytes(hs[i]) = cs[i].Data

\* a file of two chunks was uploaded with a password and the same file
\* without: the index holds the two chunks and their two sealed forms
C33_Witness ==
    \E f, g \in DOMAIN files :
        /\ files[f].Encrypted
        /\ ~files[g].Encrypted
        /\ uploads[f].bytes = uploads[g].bytes
        /\ Len(files[f].ChunkHashes) = 2
        /\ Cardinality(DOMAIN index) = 4

\* ------------------------------------------------------------------------
\* ReleaseChunk returning an error (SpecStore)
\* ------------------------------------------------------------------------

\* a ReleaseChunk call of the client is about to return an error
ReleaseFailing(p) ==
    /\ pc[p] = "unlock"
    /\ call[p].op = "release"
    /\ ret[p].err # "none"

\* C34: when ReleaseChunk returns an error (the hash is not in the index, or
\* os.Remove failed) the index is what it was when the call took the lock,
\* entries and reference counts, and an index file that held the index then
\* holds it now
C34_ReleaseErrorFrame ==
    \A p \in Procs :
        ReleaseFailing(p) =>
            /\ index = pre[p].index
            /\ snapshot = SnapshotOf(pre[p].index) => snapshot = SnapshotOf(index)

\* ------------------------------------------------------------------------
\* GetChunk next to StoreChunk and ReleaseChunk (SpecFetch)
\* ------------------------------------------------------------------------

\* a GetChunk call of the client has returned
Fetched(p) == call[p].op = "get" /\ pc[p] = "idle"

\* C35: a GetChunk(h) that has returned, whatever StoreChunk and
\* ReleaseChunk calls ran next to it, returned the 'chunk not found' error
\* or the complete bytes whose hash is h; it returned no other bytes and no
\* error of reading the file
C35_FetchWholeOrNotFound ==
    \A p \in Procs :
        Fetched(p) =>
            \/ ret[p].err = "notfound"
            \/ /\ ret[p].err = "none"
               /\ Sha256Hex(ret[p].data) = call[p].hash

\* ------------------------------------------------------------------------
\* The shape of the ring (SpecRing)
\* ------------------------------------------------------------------------

\* C36: between mutations, sortedHashes is sorted ascending and holds each
\* key of circle exactly once, the owner of every entry is in the nodes set,
\* and every node of the nodes set owns at least one entry
C36_RingWellFormed ==
    mu.writer = 0 =>
        /\ \A i, j \in DOMAIN ring.sortedHashes :
              i < j => ring.sortedHashes[i] <= ring.sortedHashes[j]
        /\ {ring.sortedHashes[i] : i \in DOMAIN ring.sortedHashes} = DOMAIN ring.circle
        /\ Len(ring.sortedHashes) = Cardinality(DOMAIN ring.circle)
        /\ \A q \in DOMAIN ring.circle : ring.circle[q] \in ring.nodes
        /\ \A n \in ring.nodes : \E q \in DOMAIN ring.circle : ring.circle[q] = n

\* ------------------------------------------------------------------------
\* CreateChunk under concurrent clients (SpecDb)
\* ------------------------------------------------------------------------

\* the ref_count of a chunk in the chunks table, 0 when it has no row
RefCountIn(d, chunkHash) ==
    IF chunkHash \in DOMAIN d.chunks THEN d.chunks[chunkHash].ref_count ELSE 0

\* C38: every CreateChunk call succeeds, whatever calls for the same hash
\* run next to it: it reports a new chunk exactly when the chunk had no row
\* before it wrote, and it leaves the ref_count of the chunk one higher, so
\* that of the calls for a hash that was absent one reports a new chunk, the
\* others an increment, and ref_count is the number of calls
C38_CreateChunkConcurrent ==
    dbret.op = "CreateChunk" =>
        /\ dbret.err = "none"
        /\ dbret.isNew = (dbret.hash \notin DOMAIN dbret.before.chunks)
        /\ RefCountIn(db, dbret.hash) = RefCountIn(dbret.before, dbret.hash) + 1

\* ------------------------------------------------------------------------
\* /retrieve next to /store on a storage node (SpecNode)
\* ------------------------------------------------------------------------

\* a /retrieve was answered for a hash of the held set whose /store the node
\* had acknowledged
RetrievedHeld ==
    /\ hresp.op = "retrieve"
    /\ hresp.held
    /\ hresp.hash \in acked

\* C39: a /retrieve for a held hash is answered with exactly the complete
\* bytes stored under the hash, also while a /store of the same hash is in
\* progress (500 when os.ReadFile itself failed); never with an empty or
\* partly written chunk
C39_RetrieveWhileStoring ==
    RetrievedHeld =>
        \/ /\ hresp.status = 200
           /\ Sha256Hex(hresp.data) = hresp.hash
        \/ /\ hresp.status = 500
           /\ hresp.fault

====
